---------------------------- MODULE Spec2Model ----------------------------
(***************************************************************************)
(* A model of the 2lang-chat application: the translation gateway          *)
(* (src/src/services/translationService.ts), the message log of the three  *)
(* backends (hosted store, cross-tab broadcast, polling storage) and the   *)
(* presence-based role assignment of the two App variants, the chat screen *)
(* (sending, background translation, typing indicator) and the presence    *)
(* registries of the three backends.                                       *)
(*                                                                         *)
(* Strings: TLA+ string literals are ASCII.  The arrow U+2192 of the mock  *)
(* translation is written "->", and a text in Japanese script is written   *)
(* "<ja>..." (see HasJapaneseScript).                                      *)
(***************************************************************************)
EXTENDS Integers, Sequences, FiniteSets, TLC

VARIABLES
    apiKey,     \* TranslationService.apiKey ("" = not configured)
    tr,         \* the translateText call in progress (or the last one made)
    backend,    \* the transport the session runs on: "hosted", "crosstab", "polling"
    now,        \* Date.now() / the store's NOW(), in ticks
    nextId,     \* the next fresh message id
    ops,        \* number of bounded operations issued so far (log operations; extras of the App)
    supabase,   \* realtime.ts `supabase`: "client" or "null"
    dbMessages, \* hosted store: the rows of table messages (a set)
    lsMessages, \* polling backend: the list under CHAT_STORAGE_KEY in localStorage
    ctMessages, \* cross-tab backend: each tab's CrossTabService.messages
    channel,    \* cross-tab backend: per tab, the broadcasts not yet handled
    opResult,   \* how the last log operation ended for its caller: "ok", "threw"
    variant,    \* the App in use: "rooms" (src/src/App.tsx) or "single" (the one-room App)
    presence,   \* hosted store: the rows of table presence (a set, one row per client_id)
    ui,         \* per browser tab: the App component's state
    calls,      \* per tab: the join / initializeChat calls in progress
    effects,    \* per tab: the roles of the presence-effect upserts still in flight
    started,    \* number of joins started so far
    joinLog,    \* history: the clients that were assigned a role and their rooms, in that order
    clean,      \* history: every join so far ran alone, read and wrote, and nothing was removed
    chat,       \* per tab: the chat screen's state fed by the presence subscription, and its dialogs
    typing,     \* hosted store: the rows of table typing_indicators (a set, one row per "user")
    jobs,       \* per message id: the background translation sendMessage started for it
    typingLog,  \* history: the setTypingIndicator upserts the store applied, oldest first
    lsPresence, \* polling backend: the list under PRESENCE_STORAGE_KEY in localStorage
    ctPresence, \* cross-tab backend: each tab's CrossTabService.presence
    subscriber, \* per tab: its presence subscription and the last snapshot its callback got
    due,        \* the tabs whose interval callback is yet to run: the cleanup of the tick
                \* (cross-tab), the first poll after a write to the registry (polling)
    applied,    \* history: per registry and client id, the last presence update applied
    idImpl,     \* which getOrCreateClientId the build has: "memory", "session", "fresh"
    storageOk,  \* whether the browser lets the page use sessionStorage
    currentClientId, \* per tab: realtime.ts `currentClientId` (0 = null)
    sessionStorage,  \* per tab: the item client_id of sessionStorage (0 = none)
    generated,  \* number of ids generateClientId has produced
    returned,   \* history: per tab, what its getOrCreateClientId calls returned
    revision,   \* hosted store: number of changes made to table messages so far
    msgSub,     \* per tab: its message subscription and what its callback got last
    fetches     \* per tab: the getMessages requests of the subscription in flight

trVars == <<apiKey, tr>>
logVars == <<backend, now, nextId, ops, supabase, dbMessages, lsMessages,
             ctMessages, channel, opResult>>
appVars == <<variant, presence, ui, calls, effects, started, joinLog, clean>>
chatVars == <<chat, typing, jobs, typingLog>>
presVars == <<lsPresence, ctPresence, subscriber, due, applied>>
idVars == <<idImpl, storageOk, currentClientId, sessionStorage, generated, returned>>
subVars == <<revision, msgSub, fetches>>
notTr == <<idVars, subVars, logVars, appVars, chatVars, presVars>>
notLog == <<trVars, idVars, subVars, appVars, chatVars, presVars>>
vars == <<trVars, idVars, subVars, logVars, appVars, chatVars, presVars>>

\* The tabs of one browser.
Tabs == {"t1", "t2"}

\* The translation gateway with no call made.
NoSub == [st |-> "none", ep |-> 0, timer |-> "none", val |-> ""]
IdleCall == [pc |-> "idle", text |-> "", fromLanguage |-> "", toLanguage |-> "",
             from |-> "", to |-> "", key |-> "", attempt |-> 0, primaryCalls |-> 0,
             issued |-> {}, libre |-> NoSub, mm |-> NoSub, gg |-> NoSub,
             result |-> ""]
TrIdle == apiKey = "" /\ tr = IdleCall

\* The message log before any operation: every store is empty.
LogIdle ==
    /\ backend = "hosted" /\ now = 0 /\ nextId = 1 /\ ops = 0
    /\ supabase = "client"
    /\ dbMessages = {} /\ lsMessages = <<>>
    /\ ctMessages = [t \in Tabs |-> <<>>]
    /\ channel = [t \in Tabs |-> <<>>]
    /\ opResult = "ok"

\* The browser tabs (one client id each), the chat rooms, the two call slots
\* of a tab (a second join can start while the first is in progress).
Clients == {"c1", "c2", "c3"}
Rooms == {"r1", "r2"}
Slots == {1, 2}
Roles == {"user1", "user2", "spectator"}

\* useState initial values of the App component, before the tab is opened.
InitialUI == [mounted |-> FALSE, displayName |-> "", myLanguage |-> "", role |-> "",
              currentSender |-> "user1", showRoomSelection |-> FALSE,
              newMessage |-> ""]
NoCall == [pc |-> "idle", roomId |-> "none", newRole |-> ""]
\* A call that has returned; a slot serves one call in a run.
Returned == [pc |-> "done", roomId |-> "none", newRole |-> ""]

\* The application with no tab opened.
AppIdle ==
    /\ variant = "rooms" /\ presence = {}
    /\ ui = [c \in Clients |-> InitialUI]
    /\ calls = [c \in Clients |-> [s \in Slots |-> NoCall]]
    /\ effects = [c \in Clients |-> {}]
    /\ started = 0 /\ joinLog = <<>> /\ clean = TRUE

\* The chat screen before the presence subscription has delivered anything:
\* useState initial values ('' stands for null as well).
InitialChat == [user1OnlineName |-> "", user2OnlineName |-> "",
                user1Language |-> "", user2Language |-> "",
                typingUser |-> "", typingIndicator |-> [user |-> "null"], alerts |-> 0]

\* No message was sent and no typing indicator was written.
ChatIdle ==
    /\ chat = [c \in Clients |-> InitialChat]
    /\ typing = {} /\ jobs = <<>> /\ typingLog = <<>>

\* A presence subscription that was not made, and the registries (one per
\* tab in the cross-tab backend, one store in the other two) with no update.
NotSubscribed == [on |-> FALSE, snapshot |-> <<>>, at |-> 0]
Registries == Tabs \cup {"store"}
NoRecord == [clientId |-> "none"]
PresIdle ==
    /\ lsPresence = <<>>
    /\ ctPresence = [t \in Tabs |-> <<>>]
    /\ subscriber = [t \in Tabs |-> NotSubscribed]
    /\ due = {}
    /\ applied = [g \in Registries |-> [c \in Tabs |-> NoRecord]]

\* No tab has asked for its client id.
IdIdle ==
    /\ idImpl = "memory" /\ storageOk = TRUE
    /\ currentClientId = [t \in Tabs |-> 0]
    /\ sessionStorage = [t \in Tabs |-> 0]
    /\ generated = 0
    /\ returned = [t \in Tabs |-> <<>>]

\* No tab has subscribed to table messages and the table was never changed.
NoMsgSub == [state |-> "none", roomId |-> "undefined", snapshot |-> <<>>, rev |-> 0,
             called |-> FALSE, late |-> FALSE]
SubIdle ==
    /\ revision = 0
    /\ msgSub = [t \in Tabs |-> NoMsgSub]
    /\ fetches = [t \in Tabs |-> <<>>]

(***************************************************************************)
(*                        TRANSLATION GATEWAY                              *)
(***************************************************************************)

\* App.tsx LANGUAGES: the language codes the app passes to translateText.
LanguageCodes == {"en", "ja"}

\* Message texts handed to translateText.
Texts == {"", "Hello"}

\* String.prototype.toLowerCase on the codes in use.
ToLowerCase(s) ==
    CASE s = "EN" -> "en"
      [] s = "JA" -> "ja"
      [] OTHER -> s

\* String.prototype.trim on the provider bodies in use.
Trim(s) ==
    CASE s = " " -> ""
      [] s = "Hola " -> "Hola"
      [] s = "<ja>konnichiwa " -> "<ja>konnichiwa"
      [] OTHER -> s

\* jpRegex.test(text): the text holds a character of a Japanese script.
HasJapaneseScript(s) == s \in {"<ja>konnichiwa", "<ja>konnichiwa "}

\* The texts a provider may answer with.
ProviderTexts == {"", " ", "Hola ", "<ja>konnichiwa"}

\* What one HTTP endpoint does with a request:
\*   neterr  - fetch rejects (network error)
\*   silent  - the endpoint never responds
\*   http    - a response with a non-2xx status
\*   badjson - a 2xx response whose body is not the expected shape
\*   ok      - a 2xx response carrying `body`
Outcomes ==
    [kind : {"neterr", "silent", "http", "badjson"}, body : {""}]
    \cup [kind : {"ok"}, body : ProviderTexts]

\* translateWithRetry's default maxRetries.
maxRetries == 2

\* getMockTranslation: `[${fromLanguage}->${toLanguage}] ${text}`.
GetMockTranslation(text, fromLanguage, toLanguage) ==
    "[" \o fromLanguage \o "->" \o toLanguage \o "] " \o text

\* Mutant: any non-empty text passes, whatever the target.
IsTargetLanguageSatisfiedNonEmpty(text, target) == text # ""

\* isTargetLanguageSatisfied.
IsTargetLanguageSatisfied(text, target) ==
    IF text = "" THEN FALSE
    ELSE IF target = "ja" THEN HasJapaneseScript(text)
    ELSE TRUE

\* translateWithFallbacks up to its first await: the three provider calls are
\* started together; LibreTranslate arms one 5 s abort timer for all its endpoints.
StartFallbacks(t) ==
    [t EXCEPT !.pc = "fallbacks",
              !.libre = [st |-> "run", ep |-> 1, timer |-> "armed", val |-> ""],
              !.mm = [st |-> "run", ep |-> 1, timer |-> "armed", val |-> ""],
              !.gg = [st |-> "run", ep |-> 1, timer |-> "armed", val |-> ""],
              !.issued = @ \cup {"libre1", "mymemory", "google"}]

\* Mutant: without a key the mock translation is returned at once.
TranslateTextEntryMockOnly(text, fromLanguage, toLanguage) ==
    LET t0 == [IdleCall EXCEPT !.text = text,
                               !.fromLanguage = fromLanguage,
                               !.toLanguage = toLanguage,
                               !.from = ToLowerCase(fromLanguage),
                               !.to = ToLowerCase(toLanguage),
                               !.key = apiKey]
    IN  IF apiKey = ""
        THEN [t0 EXCEPT !.pc = "returned",
                        !.result = GetMockTranslation(text, t0.from, t0.to)]
        ELSE IF fromLanguage = toLanguage
             THEN [t0 EXCEPT !.pc = "returned", !.result = text]
             ELSE [t0 EXCEPT !.pc = "openai", !.attempt = 1]

\* translateText: the key test comes first, the from === to test second.
TranslateTextEntry(text, fromLanguage, toLanguage) ==
    LET t0 == [IdleCall EXCEPT !.text = text,
                               !.fromLanguage = fromLanguage,
                               !.toLanguage = toLanguage,
                               !.from = ToLowerCase(fromLanguage),
                               !.to = ToLowerCase(toLanguage),
                               !.key = apiKey]
    IN  IF apiKey = "" THEN StartFallbacks(t0)
        ELSE IF fromLanguage = toLanguage
             THEN [t0 EXCEPT !.pc = "returned", !.result = text]
             ELSE [t0 EXCEPT !.pc = "openai", !.attempt = 1]

TranslateText(text, fromLanguage, toLanguage) ==
    /\ tr.pc \in {"idle", "returned"}
    /\ tr' = TranslateTextEntry(text, fromLanguage, toLanguage)
    /\ UNCHANGED <<apiKey, notTr>>

\* setApiKey (and the constructor's choice between a key and none).
SetApiKey(k) ==
    /\ apiKey' = k
    /\ apiKey' # apiKey
    /\ UNCHANGED <<tr, notTr>>

\* translateWithOpenAI: the value it resolves with, or "" when it throws.  The
\* 15 s abort timer is armed for the whole fetch, so a silent endpoint rejects.
OpenAIResult(o) ==
    IF o.kind = "ok" THEN Trim(o.body) ELSE ""

\* Mutant: the last failed attempt is rethrown instead of falling through.
AfterPrimaryFailureRethrow(t) ==
    IF t.attempt = maxRetries
    THEN [t EXCEPT !.pc = "threw"]
    ELSE [t EXCEPT !.attempt = @ + 1]

\* translateWithRetry's catch block: after the last attempt fall through to the
\* fallback chain, otherwise wait attempt * 1000 ms and try again.
AfterPrimaryFailure(t) ==
    IF t.attempt = maxRetries
    THEN StartFallbacks(t)
    ELSE [t EXCEPT !.attempt = @ + 1]

\* Mutant: the fallback chain is started after every primary attempt.
OpenAIAttemptThenFallbacks(o) ==
    /\ tr.pc = "openai"
    /\ tr' = StartFallbacks([tr EXCEPT !.primaryCalls = @ + 1,
                                       !.issued = @ \cup {"openai"}])
    /\ UNCHANGED <<apiKey, notTr>>

\* One iteration of translateWithRetry's loop.
OpenAIAttempt(o) ==
    /\ tr.pc = "openai"
    /\ LET t1 == [tr EXCEPT !.primaryCalls = @ + 1, !.issued = @ \cup {"openai"}]
           r == OpenAIResult(o)
       IN  tr' = IF r # "" THEN [t1 EXCEPT !.pc = "returned", !.result = r]
                 ELSE AfterPrimaryFailure(t1)
    /\ UNCHANGED <<apiKey, notTr>>

\* translateViaLibreTranslate's catch { lastError = err; continue }: the next
\* endpoint, or the final throw after the third.
LibreNext(l) ==
    IF l.ep = 3 THEN [l EXCEPT !.st = "err"] ELSE [l EXCEPT !.ep = @ + 1]

\* One endpoint of translateViaLibreTranslate.  clearTimeout runs as soon as a
\* fetch resolves, so it is armed for later endpoints only if every earlier
\* fetch rejected.
LibreStep(l, o) ==
    IF l.timer = "fired" THEN LibreNext(l)   \* fetch with an aborted signal rejects
    ELSE CASE o.kind = "neterr" -> LibreNext(l)
           [] o.kind = "silent" ->
                IF l.timer = "armed" THEN LibreNext([l EXCEPT !.timer = "fired"])
                ELSE [l EXCEPT !.st = "hung"]
           [] o.kind \in {"http", "badjson"} -> LibreNext([l EXCEPT !.timer = "cleared"])
           [] OTHER -> [l EXCEPT !.timer = "cleared", !.st = "ok", !.val = o.body]

LibreEndpoint(o) ==
    /\ tr.pc = "fallbacks"
    /\ tr.libre.st = "run"
    /\ LET l == LibreStep(tr.libre, o)
           url == CASE l.ep = 2 -> "libre2" [] l.ep = 3 -> "libre3" [] OTHER -> "libre1"
       IN  tr' = [tr EXCEPT !.libre = l,
                            !.issued = IF l.st = "run" /\ l.timer # "fired"
                                       THEN @ \cup {url} ELSE @]
    /\ UNCHANGED <<apiKey, notTr>>

\* translateViaMyMemory: the timer is armed for the whole fetch; an empty
\* translatedText with no usable match throws.
MyMemoryResult(o) ==
    IF o.kind = "ok" /\ o.body # ""
    THEN [st |-> "ok", ep |-> 1, timer |-> "cleared", val |-> o.body]
    ELSE [st |-> "err", ep |-> 1, timer |-> "cleared", val |-> ""]

MyMemory(o) ==
    /\ tr.pc = "fallbacks"
    /\ tr.mm.st = "run"
    /\ tr' = [tr EXCEPT !.mm = MyMemoryResult(o)]
    /\ UNCHANGED <<apiKey, notTr>>

\* translateViaGoogleTranslate: returns translation.trim() when it is not blank.
GoogleResult(o) ==
    IF o.kind = "ok" /\ Trim(o.body) # ""
    THEN [st |-> "ok", ep |-> 1, timer |-> "cleared", val |-> Trim(o.body)]
    ELSE [st |-> "err", ep |-> 1, timer |-> "cleared", val |-> ""]

GoogleTranslate(o) ==
    /\ tr.pc = "fallbacks"
    /\ tr.gg.st = "run"
    /\ tr' = [tr EXCEPT !.gg = GoogleResult(o)]
    /\ UNCHANGED <<apiKey, notTr>>

\* Mutant: the first fulfilled string wins without the satisfied-check.
PickFallbackUnchecked(t) ==
    CASE t.libre.st = "ok" -> t.libre.val
      [] t.mm.st = "ok" -> t.mm.val
      [] t.gg.st = "ok" -> t.gg.val
      [] OTHER -> GetMockTranslation(t.text, t.from, t.to)

\* The loop over Promise.allSettled's results, in the order the promises were
\* listed: the first fulfilled string that satisfies the check, else the mock.
PickFallback(t) ==
    LET good(s) == s.st = "ok" /\ IsTargetLanguageSatisfied(s.val, t.to)
    IN  CASE good(t.libre) -> t.libre.val
          [] good(t.mm) -> t.mm.val
          [] good(t.gg) -> t.gg.val
          [] OTHER -> GetMockTranslation(t.text, t.from, t.to)

\* translateWithFallbacks after Promise.allSettled resolved.
FallbacksCollect ==
    /\ tr.pc = "fallbacks"
    /\ \A s \in {tr.libre, tr.mm, tr.gg} : s.st \in {"ok", "err"}
    /\ tr' = [tr EXCEPT !.pc = "returned", !.result = PickFallback(tr)]
    /\ UNCHANGED <<apiKey, notTr>>

TranslateStep ==
    \/ \E o \in Outcomes : OpenAIAttempt(o)
    \/ \E o \in Outcomes : LibreEndpoint(o)
    \/ \E o \in Outcomes : MyMemory(o)
    \/ \E o \in Outcomes : GoogleTranslate(o)
    \/ FallbacksCollect

InitTranslate ==
    /\ apiKey \in {"", "sk-key"}
    /\ tr = IdleCall
    /\ LogIdle
    /\ AppIdle
    /\ ChatIdle
    /\ PresIdle
    /\ IdIdle
    /\ SubIdle

NextTranslate ==
    \/ \E text \in Texts, f \in LanguageCodes, t \in LanguageCodes : TranslateText(text, f, t)
    \/ \E k \in {"", "sk-key"} : SetApiKey(k)
    \/ TranslateStep

SpecTranslate == InitTranslate /\ [][NextTranslate]_vars

(***************************************************************************)
(*                            MESSAGE LOG                                  *)
(* One session runs on one backend: the hosted store (supabaseChat.ts),    *)
(* the cross-tab broadcast service (CrossTabService) or the polling        *)
(* storage service (sharedChat.ts).                                        *)
(***************************************************************************)

\* Bounds of the log model.
MaxOps == 3
MaxTime == 2
MaxChannel == 2

\* The value of an optional field that was never set.
Undefined == "undefined"

\* The fields a caller hands to addMessage: Omit<SharedMessage, 'id' | 'timestamp'>.
MessageInputs ==
    [text : {"Hello"}, sender : {"user1", "user2"}, senderName : {"Ann"},
     isTranslating : {FALSE}]

\* The Partial<SharedMessage> values handed to updateMessage.
Updates ==
    { [translatedText |-> "Hola"],
      [showOriginal |-> TRUE],
      [translatedText |-> "Hola", isTranslating |-> FALSE],
      [text |-> "edited"] }

MsgIds == 1..(MaxOps + 1)

\* { ...message, id, timestamp }
NewMessage(input, id, ts) ==
    [id |-> id, text |-> input.text, translatedText |-> Undefined,
     sender |-> input.sender, senderName |-> input.senderName, timestamp |-> ts,
     showOriginal |-> FALSE, isTranslating |-> input.isTranslating]

\* Mutant: the merge keeps the supplied fields and resets showOriginal.
MergeResetting(m, u) ==
    [f \in DOMAIN m |-> IF f \in DOMAIN u THEN u[f]
                        ELSE IF f = "showOriginal" THEN FALSE ELSE m[f]]

\* { ...message, ...updates }
Merge(m, u) ==
    [f \in DOMAIN m |-> IF f \in DOMAIN u THEN u[f] ELSE m[f]]

\* messages.findIndex(m => m.id === id): 0 stands for -1.
FindIndex(list, id) ==
    IF \E i \in 1..Len(list) : list[i].id = id
    THEN CHOOSE i \in 1..Len(list) :
            /\ list[i].id = id
            /\ \A j \in 1..(i - 1) : list[j].id # id
    ELSE 0

\* messages[index] = { ...messages[index], ...updates } when the id is found.
UpdateIn(list, id, u) ==
    LET i == FindIndex(list, id)
    IN  IF i = 0 THEN list ELSE [list EXCEPT ![i] = Merge(list[i], u)]

IsSorted(list) ==
    \A i \in 1..Len(list), j \in 1..Len(list) :
        i < j => list[i].timestamp <= list[j].timestamp

\* Time passes; in the cross-tab backend every tab's 30-second cleanup
\* interval fires with the tick.
Tick ==
    /\ now < MaxTime
    /\ now' = now + 1
    /\ due' = IF backend = "crosstab" THEN Tabs ELSE due
    /\ UNCHANGED <<backend, nextId, ops, supabase, dbMessages, lsMessages,
                   ctMessages, channel, opResult, trVars, idVars, subVars, appVars, chatVars,
                   lsPresence, ctPresence, subscriber, applied>>

---------------------------------------------------------------------------
\* Cross-tab broadcast backend (CrossTabService).

\* channel.postMessage: every other tab's listener gets the event.
PostMessage(ch, from, evt) ==
    [t \in Tabs |-> IF t = from THEN ch[t] ELSE Append(ch[t], evt)]

CTCanPost(t) == \A u \in Tabs \ {t} : Len(channel[u]) < MaxChannel

\* CrossTabService.getMessages: a copy of this tab's array.
CTGetMessages(t) == ctMessages[t]

CTAddMessage(t, input) ==
    /\ backend = "crosstab"
    /\ ops < MaxOps /\ CTCanPost(t)
    /\ LET m == NewMessage(input, nextId, now)
       IN  /\ ctMessages' = [ctMessages EXCEPT ![t] = Append(@, m)]
           /\ channel' = PostMessage(channel, t, [type |-> "MESSAGE_ADDED", data |-> m])
    /\ nextId' = nextId + 1
    /\ ops' = ops + 1
    /\ opResult' = "ok"
    /\ UNCHANGED <<backend, now, supabase, dbMessages, lsMessages, notLog>>

CTUpdateMessage(t, id, u) ==
    /\ backend = "crosstab"
    /\ ops < MaxOps /\ CTCanPost(t)
    /\ ctMessages' = [ctMessages EXCEPT ![t] = UpdateIn(@, id, u)]
    /\ channel' = IF FindIndex(ctMessages[t], id) # 0
                  THEN PostMessage(channel, t,
                          [type |-> "MESSAGE_UPDATED", data |-> [id |-> id, updates |-> u]])
                  ELSE channel
    /\ ops' = ops + 1
    /\ opResult' = "ok"
    /\ UNCHANGED <<backend, now, nextId, supabase, dbMessages, lsMessages, notLog>>

CTClearChat(t) ==
    /\ backend = "crosstab"
    /\ ops < MaxOps /\ CTCanPost(t)
    /\ ctMessages' = [ctMessages EXCEPT ![t] = <<>>]
    /\ channel' = PostMessage(channel, t, [type |-> "CLEAR_CHAT", data |-> Undefined])
    /\ ops' = ops + 1
    /\ opResult' = "ok"
    /\ UNCHANGED <<backend, now, nextId, supabase, dbMessages, lsMessages, notLog>>

\* handleCrossTabMessage: the message cases of the switch.
HandleCrossTabMessage(list, evt) ==
    CASE evt.type = "MESSAGE_ADDED" -> Append(list, evt.data)
      [] evt.type = "MESSAGE_UPDATED" -> UpdateIn(list, evt.data.id, evt.data.updates)
      [] evt.type = "CLEAR_CHAT" -> <<>>
      [] OTHER -> list

\* presence.findIndex(p => p.clientId === clientId): 0 stands for -1.
FindClient(list, clientId) ==
    IF \E i \in 1..Len(list) : list[i].clientId = clientId
    THEN CHOOSE i \in 1..Len(list) :
            /\ list[i].clientId = clientId
            /\ \A j \in 1..(i - 1) : list[j].clientId # clientId
    ELSE 0

\* Mutant: the record is pushed whether or not the client has one.
UpsertPushing(list, data) == Append(list, data)

\* if (index !== -1) presence[index] = data; else presence.push(data)
Upsert(list, data) ==
    LET i == FindClient(list, data.clientId)
    IN  IF i = 0 THEN Append(list, data) ELSE [list EXCEPT ![i] = data]

\* handleCrossTabMessage: the PRESENCE_UPDATED case.
HandlePresenceMessage(list, evt) ==
    IF evt.type = "PRESENCE_UPDATED" THEN Upsert(list, evt.data) ELSE list

\* notifyPresenceListeners: the tab's subscriber, if any, gets the snapshot.
Notify(sub, snapshot) ==
    IF sub.on THEN [on |-> TRUE, snapshot |-> snapshot, at |-> now] ELSE sub

\* The channel's 'message' listener of tab t runs for the oldest pending event.
CTReceive(t) ==
    /\ backend = "crosstab"
    /\ channel[t] # <<>>
    /\ LET evt == Head(channel[t])
       IN  /\ ctMessages' = [ctMessages EXCEPT ![t] = HandleCrossTabMessage(@, evt)]
           /\ ctPresence' = [ctPresence EXCEPT ![t] = HandlePresenceMessage(@, evt)]
           /\ IF evt.type = "PRESENCE_UPDATED"
              THEN /\ subscriber' = [subscriber EXCEPT
                                        ![t] = Notify(@, ctPresence'[t])]
                   /\ applied' = [applied EXCEPT ![t][evt.data.clientId] = evt.data]
              ELSE UNCHANGED <<subscriber, applied>>
    /\ channel' = [channel EXCEPT ![t] = Tail(@)]
    /\ UNCHANGED <<backend, now, nextId, ops, supabase, dbMessages, lsMessages,
                   opResult, trVars, idVars, subVars, appVars, chatVars, lsPresence, due>>

---------------------------------------------------------------------------
\* Polling storage backend (SharedChatService): every tab reads and writes the
\* same localStorage entry, synchronously.

\* SharedChatService.getMessages
LSGetMessages == lsMessages

LSAddMessage(input) ==
    /\ backend = "polling"
    /\ ops < MaxOps
    /\ lsMessages' = Append(LSGetMessages, NewMessage(input, nextId, now))
    /\ nextId' = nextId + 1
    /\ ops' = ops + 1
    /\ opResult' = "ok"
    /\ UNCHANGED <<backend, now, supabase, dbMessages, ctMessages, channel, notLog>>

LSUpdateMessage(id, u) ==
    /\ backend = "polling"
    /\ ops < MaxOps
    /\ lsMessages' = UpdateIn(LSGetMessages, id, u)
    /\ ops' = ops + 1
    /\ opResult' = "ok"
    /\ UNCHANGED <<backend, now, nextId, supabase, dbMessages, ctMessages, channel, notLog>>

LSClearChat ==
    /\ backend = "polling"
    /\ ops < MaxOps
    /\ lsMessages' = <<>>
    /\ ops' = ops + 1
    /\ opResult' = "ok"
    /\ UNCHANGED <<backend, now, nextId, supabase, dbMessages, ctMessages, channel, notLog>>

---------------------------------------------------------------------------
\* Hosted backend (SupabaseChatService over table messages).

\* The columns updateMessage copies into updateData.
HostedColumns == {"translatedText", "showOriginal", "isTranslating"}

\* updateData: the supplied fields among the three columns.
UpdateData(u) == [f \in DOMAIN u \cap HostedColumns |-> u[f]]

\* .order('created_at', { ascending: true }): the rows as a list, oldest first
\* (rows of equal created_at in id order).
RECURSIVE OrderByCreatedAt(_)
OrderByCreatedAt(rows) ==
    IF rows = {} THEN <<>>
    ELSE LET first == CHOOSE r \in rows :
                 \A q \in rows : \/ r.timestamp < q.timestamp
                                 \/ r.timestamp = q.timestamp /\ r.id <= q.id
         IN  <<first>> \o OrderByCreatedAt(rows \ {first})

\* SupabaseChatService.getMessages; a failed query yields [].
HostedGetMessages == OrderByCreatedAt(dbMessages)

\* The connection test of realtime.ts fails: the client is dropped.
ConnectionTestFails ==
    /\ backend = "hosted"
    /\ supabase = "client"
    /\ supabase' = "null"
    /\ UNCHANGED <<backend, now, nextId, ops, dbMessages, lsMessages, ctMessages,
                   channel, opResult, notLog>>

\* addMessage: throws without a client and when the insert fails.
DBAddMessage(input, dbOk) ==
    /\ backend = "hosted"
    /\ ops < MaxOps
    /\ ops' = ops + 1
    /\ IF supabase = "client" /\ dbOk
       THEN /\ dbMessages' = dbMessages \cup {NewMessage(input, nextId, now)}
            /\ nextId' = nextId + 1
            /\ opResult' = "ok"
       ELSE /\ opResult' = "threw"
            /\ UNCHANGED <<dbMessages, nextId>>
    /\ UNCHANGED <<backend, now, supabase, lsMessages, ctMessages, channel, notLog>>

\* Mutant: the update is applied without the filter on id.
DBUpdateRowsUnfiltered(rows, id, u) ==
    {Merge(r, UpdateData(u)) : r \in rows}

\* .update(updateData).eq('id', messageId) on the rows.
DBUpdateRows(rows, id, u) ==
    {IF r.id = id THEN Merge(r, UpdateData(u)) ELSE r : r \in rows}

\* updateMessage: throws without a client; a failed update is logged only.
DBUpdateMessage(id, u, dbOk) ==
    /\ backend = "hosted"
    /\ ops < MaxOps
    /\ ops' = ops + 1
    /\ IF supabase # "client"
       THEN opResult' = "threw" /\ UNCHANGED dbMessages
       ELSE /\ opResult' = "ok"
            /\ dbMessages' = IF dbOk THEN DBUpdateRows(dbMessages, id, u) ELSE dbMessages
    /\ UNCHANGED <<backend, now, nextId, supabase, lsMessages, ctMessages, channel, notLog>>

\* clearChat: throws without a client; a failed delete is logged only.
DBClearChat(dbOk) ==
    /\ backend = "hosted"
    /\ ops < MaxOps
    /\ ops' = ops + 1
    /\ IF supabase # "client"
       THEN opResult' = "threw" /\ UNCHANGED dbMessages
       ELSE /\ opResult' = "ok"
            /\ dbMessages' = IF dbOk THEN {} ELSE dbMessages
    /\ UNCHANGED <<backend, now, nextId, supabase, lsMessages, ctMessages, channel, notLog>>

InitLog ==
    /\ backend \in {"hosted", "crosstab", "polling"}
    /\ supabase \in {"client", "null"}
    /\ backend # "hosted" => supabase = "null"
    /\ now = 0 /\ nextId = 1 /\ ops = 0
    /\ dbMessages = {} /\ lsMessages = <<>>
    /\ ctMessages = [t \in Tabs |-> <<>>]
    /\ channel = [t \in Tabs |-> <<>>]
    /\ opResult = "ok"
    /\ TrIdle
    /\ AppIdle
    /\ ChatIdle
    /\ PresIdle
    /\ IdIdle
    /\ SubIdle

NextLog ==
    \/ Tick
    \/ \E t \in Tabs, input \in MessageInputs : CTAddMessage(t, input)
    \/ \E t \in Tabs, id \in MsgIds, u \in Updates : CTUpdateMessage(t, id, u)
    \/ \E t \in Tabs : CTClearChat(t)
    \/ \E t \in Tabs : CTReceive(t)
    \/ \E input \in MessageInputs : LSAddMessage(input)
    \/ \E id \in MsgIds, u \in Updates : LSUpdateMessage(id, u)
    \/ LSClearChat
    \/ ConnectionTestFails
    \/ \E input \in MessageInputs, dbOk \in BOOLEAN : DBAddMessage(input, dbOk)
    \/ \E id \in MsgIds, u \in Updates, dbOk \in BOOLEAN : DBUpdateMessage(id, u, dbOk)
    \/ \E dbOk \in BOOLEAN : DBClearChat(dbOk)

SpecLog == InitLog /\ [][NextLog]_vars

(***************************************************************************)
(*                 PRESENCE, ROLES AND SENDING (the App)                   *)
(* Two variants of the App component run on the hosted store: the rooms    *)
(* App (src/src/App.tsx with services/supabaseChat.ts) and the one-room    *)
(* App whose initializeChat assigns the role when the tab is opened.       *)
(* Every await of a handler ends a step: the store serves the requests of  *)
(* the tabs in any order.                                                  *)
(***************************************************************************)

\* Joins started in one run, and messages sent in one run.
MaxJoins == 3
\* Join calls in progress at one time, over all tabs.
MaxInFlight == 2
MaxSends == 1
\* Tabs holding an unsent draft at one time.
MaxDrafts == 1
\* Store faults and user events other than joining and sending, in one run.
MaxExtras == 1

\* The language the users of one run choose; with a single language in use
\* needsTranslation is false and sendMessage ends after addMessage.
AppLanguages == {"en"}

\* What the user can have typed into the message input.
Typed == {"", "Hello"}

\* The variables no App handler writes.
\* The log variables but the operation counter.
logNoOps == <<backend, now, nextId, supabase, dbMessages, lsMessages, ctMessages,
              channel, opResult>>
logFrame == <<trVars, idVars, subVars, backend, supabase, lsMessages, ctMessages, channel, opResult,
              presVars>>
appFrame == <<logFrame, chatVars>>

\* A store fault counts as one operation of the run.
Faults(ok) == IF ok THEN 0 ELSE 1

\* A step that spends n of the run's extras.
Extras(n) == ops + n <= MaxExtras /\ ops' = ops + n
Fault(dbOk) == Extras(IF dbOk THEN 0 ELSE 1)

\* Which of the component's return statements renders.
Screen(c) ==
    IF ~ui[c].mounted THEN "closed"
    ELSE IF ui[c].displayName = "" THEN "onboarding"
    ELSE IF variant = "rooms" /\ ui[c].showRoomSelection THEN "rooms"
    ELSE IF ui[c].myLanguage = "" \/ ui[c].role = "" THEN "setup"
    ELSE "chat"

\* const canSend = role === 'user1' || role === 'user2'
CanSend(c) == ui[c].role \in {"user1", "user2"}

HasRow(rows, c) == \E r \in rows : r.clientId = c
RowOf(rows, c) == CHOOSE r \in rows : r.clientId = c

\* Mutant: a spectator is never assigned.
AssignRoleNoSpectator(snapshot) ==
    IF ~\E p \in snapshot : p.role = "user1" THEN "user1" ELSE "user2"

\* user1Count === 0 ? 'user1' : user2Count === 0 ? 'user2' : 'spectator'
AssignRole(snapshot) ==
    IF ~\E p \in snapshot : p.role = "user1" THEN "user1"
    ELSE IF ~\E p \in snapshot : p.role = "user2" THEN "user2"
    ELSE "spectator"

\* presence table: role VARCHAR(20) NOT NULL CHECK (role IN (...))
RoleCheck(role) == role \in Roles

\* joinRoom's upsert on client_id: every column of the row is written.
JoinRoomUpsert(rows, c, roomId, role) ==
    {r \in rows : r.clientId # c}
        \cup {[clientId |-> c, role |-> role, roomId |-> roomId, lastSeen |-> now]}

\* updatePresence's upsert on client_id: role and last_seen are written, the
\* room of an existing row is kept; a role the CHECK rejects is an error,
\* which updatePresence logs and swallows.
UpdatePresenceUpsert(rows, c, role) ==
    IF ~RoleCheck(role) THEN rows
    ELSE IF HasRow(rows, c)
         THEN {r \in rows : r.clientId # c}
                  \cup {[RowOf(rows, c) EXCEPT !.role = role, !.lastSeen = now]}
         ELSE rows \cup {[clientId |-> c, role |-> role, roomId |-> "none",
                          lastSeen |-> now]}

\* Mutant: removing a client's row demotes it to spectator instead.
RemovePresenceDemoting(rows, c) ==
    {IF r.clientId = c THEN [r EXCEPT !.role = "spectator"] ELSE r : r \in rows}

\* removePresence: delete ... eq('client_id', clientId)
RemovePresence(rows, c) == {r \in rows : r.clientId # c}

\* The join and initializeChat calls in progress.
InFlight == {cs \in Clients \X Slots : calls[cs[1]][cs[2]].pc \notin {"idle", "done"}}
NoCallInFlight == InFlight = {}

\* History: `clean` stays true while `ok` holds of the step, and joinLog is
\* then `log`; once a run is not clean its join log is dropped.
History(ok, log) ==
    /\ clean' = (clean /\ ok)
    /\ joinLog' = IF clean /\ ok THEN log ELSE <<>>
Joined(c, roomId) ==
    IF \E i \in DOMAIN joinLog : joinLog[i].clientId = c THEN joinLog
    ELSE Append(joinLog, [clientId |-> c, roomId |-> roomId])

\* The presence effect (useEffect on displayName, role, myLanguage): with a
\* display name set it sends updatePresence with the role of that render.
\* A request whose role the CHECK rejects (role '' before the first join)
\* changes nothing whenever it arrives, and is not kept.
EffectsAfter(c, displayName, role) ==
    IF displayName = "" \/ ~RoleCheck(role) THEN effects
    ELSE [effects EXCEPT ![c] = @ \cup {role}]

\* Tabs are interchangeable: they are opened in the order c1, c2, c3, the
\* next one when the earlier ones have passed the name screen.
Before(d, c) == <<d, c>> \in {<<"c1", "c2">>, <<"c1", "c3">>, <<"c2", "c3">>}

\* A tab is opened: the component mounts; the one-room App starts
\* initializeChat from its mount effect.
OpenTab(c) ==
    /\ Extras(0)
    /\ ~ui[c].mounted
    /\ \A d \in Clients : Before(d, c) => Screen(d) \notin {"closed", "onboarding"}
    /\ ui' = [ui EXCEPT ![c].mounted = TRUE]
    /\ IF variant = "single"
       THEN /\ started < MaxJoins
            /\ calls' = [calls EXCEPT ![c][1] = [NoCall EXCEPT !.pc = "cleanup"]]
            /\ Cardinality(InFlight) < MaxInFlight
            /\ started' = started + 1
            /\ History(NoCallInFlight, joinLog)
       ELSE UNCHANGED <<calls, started, clean, joinLog>>
    /\ UNCHANGED <<variant, presence, effects, now, nextId, dbMessages, appFrame>>

\* A language button: setMyLanguage(lang.code).
SetMyLanguage(c, lang) ==
    /\ Extras(0)
    /\ Screen(c) = (IF variant = "rooms" THEN "onboarding" ELSE "setup")
    /\ ui[c].myLanguage # lang
    /\ ui' = [ui EXCEPT ![c].myLanguage = lang]
    /\ effects' = IF variant = "rooms"
                  THEN EffectsAfter(c, ui[c].displayName, ui[c].role)
                  ELSE effects
    /\ UNCHANGED <<variant, presence, calls, started, joinLog, clean, now, nextId,
                   dbMessages, appFrame>>

\* Rooms App, "Choose Room": setDisplayName(n); setShowRoomSelection(true).
ChooseRoom(c) ==
    /\ Extras(0)
    /\ variant = "rooms"
    /\ Screen(c) = "onboarding"
    /\ ui[c].myLanguage # ""
    /\ ui' = [ui EXCEPT ![c].displayName = "Ann", ![c].showRoomSelection = TRUE]
    /\ effects' = EffectsAfter(c, "Ann", ui[c].role)
    /\ UNCHANGED <<variant, presence, calls, started, joinLog, clean, now, nextId,
                   dbMessages, appFrame>>

\* Rooms App, a room button: joinRoom(room.id) up to its first await
\* (getPresence).  Nothing disables the buttons while a join is in progress.
JoinRoomClick(c, roomId, s) ==
    /\ Extras(0)
    /\ variant = "rooms"
    /\ Screen(c) = "rooms"
    /\ calls[c][s].pc = "idle"
    /\ \A q \in Slots : q < s => calls[c][q].pc # "idle"
    /\ started < MaxJoins
    /\ Cardinality(InFlight) < MaxInFlight
    /\ IF ui[c].displayName = "" \/ ui[c].myLanguage = ""
       THEN UNCHANGED <<calls, started, clean, joinLog>>
       ELSE /\ calls' = [calls EXCEPT ![c][s] = [pc |-> "read", roomId |-> roomId,
                                                 newRole |-> ""]]
            /\ started' = started + 1
            /\ History(NoCallInFlight, joinLog)
    /\ UNCHANGED <<variant, presence, ui, effects, now, nextId, dbMessages, appFrame>>

\* joinRoom from the answer of getPresence to the upsert request: the role
\* is computed from the snapshot (a failed query yields []), setRole,
\* setCurrentSender, then supabaseChatService.joinRoom is called.
JoinRoomRead(c, s, dbOk) ==
    /\ Fault(dbOk)
    /\ variant = "rooms"
    /\ calls[c][s].pc = "read"
    /\ LET snapshot == IF dbOk THEN presence ELSE {}
           roomPresence == {p \in snapshot : p.roomId = calls[c][s].roomId}
           newRole == AssignRole(roomPresence)
       IN /\ ui' = [ui EXCEPT ![c].role = newRole,
                              ![c].currentSender =
                                  IF newRole \in {"user1", "user2"} THEN newRole ELSE @]
          /\ effects' = IF newRole # ui[c].role
                        THEN EffectsAfter(c, ui[c].displayName, newRole)
                        ELSE effects
          /\ calls' = [calls EXCEPT ![c][s].pc = "write", ![c][s].newRole = newRole]
    /\ History(dbOk, Joined(c, calls[c][s].roomId))
    /\ UNCHANGED <<variant, presence, started, now, nextId, dbMessages, appFrame>>

\* joinRoom from the upsert to its end: the row is written and the room
\* selection closes; a store error is rethrown and joinRoom alerts.
JoinRoomWrite(c, s, dbOk) ==
    /\ Fault(dbOk)
    /\ variant = "rooms"
    /\ calls[c][s].pc = "write"
    /\ IF dbOk
       THEN /\ presence' = JoinRoomUpsert(presence, c, calls[c][s].roomId,
                                          calls[c][s].newRole)
            /\ ui' = [ui EXCEPT ![c].showRoomSelection = FALSE]
       ELSE UNCHANGED <<presence, ui>>
    /\ calls' = [calls EXCEPT ![c][s] = Returned]
    /\ History(dbOk, joinLog)
    /\ UNCHANGED <<variant, effects, started, now, nextId, dbMessages, appFrame>>

\* Rooms App, "Back to Setup": setShowRoomSelection(false).
BackToSetup(c) ==
    /\ Extras(1)
    /\ variant = "rooms"
    /\ Screen(c) = "rooms"
    /\ ui' = [ui EXCEPT ![c].showRoomSelection = FALSE]
    /\ UNCHANGED <<variant, presence, calls, effects, started, joinLog, clean, now,
                   nextId, dbMessages, appFrame>>

\* An updatePresence request of the presence effect reaches the store.
PresenceEffect(c, role, dbOk) ==
    /\ Fault(dbOk)
    /\ role \in effects[c]
    /\ effects' = [effects EXCEPT ![c] = @ \ {role}]
    /\ presence' = IF dbOk THEN UpdatePresenceUpsert(presence, c, role) ELSE presence
    /\ UNCHANGED <<variant, ui, calls, started, joinLog, clean, now, nextId,
                   dbMessages, appFrame>>

\* Rooms App, visibilitychange to hidden (and beforeunload): with a name and
\* a role, removePresence(clientId); its errors are logged only.
HideTab(c, dbOk) ==
    /\ Extras(1)
    /\ variant = "rooms"
    /\ ui[c].mounted
    /\ presence' = IF ui[c].displayName # "" /\ ui[c].role # "" /\ dbOk
                   THEN RemovePresence(presence, c)
                   ELSE presence
    /\ History(presence' = presence, joinLog)
    /\ UNCHANGED <<variant, ui, calls, effects, started, now, nextId, dbMessages,
                   appFrame>>

\* Rooms App, "Clear All": clearAllPresence (rethrows), clearChat (logs
\* only), then the component state is reset to the onboarding.
ClearAll(c, presenceOk, chatOk) ==
    /\ Extras(1)
    /\ variant = "rooms"
    /\ Screen(c) = "chat"
    /\ IF presenceOk
       THEN /\ presence' = {}
            /\ dbMessages' = IF chatOk THEN {} ELSE dbMessages
            /\ ui' = [ui EXCEPT ![c].displayName = "", ![c].myLanguage = "",
                                ![c].role = "", ![c].currentSender = "user1"]
       ELSE UNCHANGED <<presence, dbMessages, ui>>
    /\ History(~presenceOk, joinLog)
    /\ UNCHANGED <<variant, calls, effects, started, now, nextId, appFrame>>

\* "Back" in the chat header: goBackToLanguageSelection.
GoBackToLanguageSelection(c, chatOk) ==
    /\ Extras(1)
    /\ Screen(c) = "chat"
    /\ dbMessages' = IF chatOk THEN {} ELSE dbMessages
    /\ ui' = [ui EXCEPT ![c].newMessage = "", ![c].currentSender = "user1"]
    /\ UNCHANGED <<variant, presence, calls, effects, started, joinLog, clean, now,
                   nextId, appFrame>>

\* The message input's onChange: setNewMessage(e.target.value).
TypeMessage(c, text) ==
    /\ Screen(c) = "chat"
    /\ ui[c].newMessage # text
    /\ ui' = [ui EXCEPT ![c].newMessage = text]
    /\ UNCHANGED <<variant, presence, calls, effects, started, joinLog, clean, now,
                   nextId, dbMessages, appFrame>>

\* Mutant: the two languages are not compared.
NeedsTranslationAnyLanguages(v) ==
    /\ v.user1OnlineName # "" /\ v.user2OnlineName # ""
    /\ v.user1Language # "" /\ v.user2Language # ""

\* needsTranslation, from the names and languages the presence subscription
\* has put on the chat screen.
NeedsTranslation(v) ==
    /\ v.user1OnlineName # "" /\ v.user2OnlineName # ""
    /\ v.user1Language # "" /\ v.user2Language # ""
    /\ v.user1Language # v.user2Language

\* currentSender === 'user1' ? user2Language : user1Language
TargetLanguage(c) ==
    IF ui[c].currentSender = "user1" THEN chat[c].user2Language
    ELSE chat[c].user1Language

\* currentSender === 'user1' ? 'user2' : 'user1'
ReceivingUser(c) == IF ui[c].currentSender = "user1" THEN "user2" ELSE "user1"

\* Mutant: the upsert keeps one row for both senders.
SetTypingIndicatorOneRow(rows, user, isTyping) ==
    {[user |-> user, isTyping |-> isTyping, timestamp |-> now]}

\* setTypingIndicator's upsert with onConflict "user": the sender's row is
\* replaced, the other sender's row is kept.
SetTypingIndicator(rows, user, isTyping) ==
    {r \in rows : r.user # user}
        \cup {[user |-> user, isTyping |-> isTyping, timestamp |-> now]}

\* The background translation of message id: translateText(messageText,
\* myLanguage, targetLanguage), not yet settled.
NewJob(c) ==
    [tab |-> c, sender |-> ui[c].currentSender, text |-> ui[c].newMessage,
     from |-> ui[c].myLanguage, to |-> TargetLanguage(c), pc |-> "translating",
     typingStartTime |-> now, aged |-> FALSE]

\* messageData: the one-room App passes no isTranslating (stored as false).
MessageData(c) ==
    [text |-> ui[c].newMessage, sender |-> ui[c].currentSender,
     senderName |-> ui[c].displayName,
     isTranslating |-> (variant = "rooms" /\ NeedsTranslation(chat[c]))]

\* alert('Failed to send message. ...')
Alert(c) == chat' = [chat EXCEPT ![c].alerts = @ + 1]

\* sendMessage, entered from the Send button (rendered disabled unless there
\* is text and canSend) or from the input's Enter key (which calls
\* sendMessage whatever the role).  The sender is currentSender.  The input
\* is cleared before the try block.  addOk: the insert succeeds; typingOk:
\* the typing_indicators upsert succeeds.  The handler runs up to the point
\* where the translation is left to run in the background.
SendMessage(c, via, addOk, typingOk) ==
    /\ Screen(c) = "chat"
    /\ via = "button" => (Trim(ui[c].newMessage) # "" /\ CanSend(c))
    /\ IF Trim(ui[c].newMessage) = "" \/ ui[c].myLanguage = ""
       THEN UNCHANGED <<ui, dbMessages, nextId, chatVars>>
       ELSE /\ ui' = [ui EXCEPT ![c].newMessage = ""]
            /\ IF supabase = "client" /\ addOk
               THEN /\ dbMessages' = dbMessages \cup
                          {NewMessage(MessageData(c), nextId, now)}
                    /\ nextId' = nextId + 1
                    /\ IF ~NeedsTranslation(chat[c])
                       THEN UNCHANGED chatVars
                       ELSE IF variant = "single"
                       THEN /\ chat' = [chat EXCEPT ![c].typingUser = ReceivingUser(c)]
                            /\ jobs' = jobs @@ (nextId :> NewJob(c))
                            /\ UNCHANGED <<typing, typingLog>>
                       ELSE IF typingOk
                       THEN /\ typing' = SetTypingIndicator(typing, ui[c].currentSender, TRUE)
                            /\ typingLog' = Append(typingLog,
                                   [user |-> ui[c].currentSender, isTyping |-> TRUE,
                                    timestamp |-> now])
                            /\ jobs' = jobs @@ (nextId :> NewJob(c))
                            /\ UNCHANGED chat
                       ELSE /\ Alert(c)
                            /\ UNCHANGED <<typing, jobs, typingLog>>
               ELSE /\ Alert(c)
                    /\ UNCHANGED <<dbMessages, nextId, typing, jobs, typingLog>>
    /\ UNCHANGED <<variant, presence, calls, effects, started, joinLog, clean, now,
                   logFrame>>

---------------------------------------------------------------------------
\* The one-room App.  Ticks are minutes.

\* cleanupOldPresence deletes rows not seen for one minute.
CleanupAge == 1
\* getPresence returns the rows seen in the last five minutes.
PresenceWindow == 5

CleanupRows(rows) == {r \in rows : ~(r.lastSeen < now - CleanupAge)}
GetPresence(rows) == {r \in rows : r.lastSeen > now - PresenceWindow}

\* "Continue" on the name screen: setDisplayName(n); the effect on
\* displayName runs initializeChat again.
Continue(c) ==
    /\ Extras(0)
    /\ variant = "single"
    /\ Screen(c) = "onboarding"
    /\ started < MaxJoins
    /\ ui' = [ui EXCEPT ![c].displayName = "Ann"]
    /\ LET s == IF calls[c][1].pc = "idle" THEN 1 ELSE 2
       IN calls' = [calls EXCEPT ![c][s] = [NoCall EXCEPT !.pc = "cleanup"]]
    /\ Cardinality(InFlight) < MaxInFlight
    /\ started' = started + 1
    /\ History(NoCallInFlight, joinLog)
    /\ effects' = EffectsAfter(c, "Ann", ui[c].role)
    /\ UNCHANGED <<variant, presence, now, nextId, dbMessages, appFrame>>

\* initializeChat: await cleanupOldPresence().
InitializeChatCleanup(c, s, dbOk) ==
    /\ Fault(dbOk)
    /\ variant = "single"
    /\ calls[c][s].pc = "cleanup"
    /\ presence' = IF dbOk THEN CleanupRows(presence) ELSE presence
    /\ calls' = [calls EXCEPT ![c][s].pc = "read"]
    /\ History(presence' = presence, joinLog)
    /\ UNCHANGED <<variant, ui, effects, started, now, nextId, dbMessages, appFrame>>

\* initializeChat from the answer of getPresence: a client found in the
\* snapshot keeps its role; otherwise the role is computed and
\* updatePresence is called.
InitializeChatRead(c, s, dbOk) ==
    /\ Fault(dbOk)
    /\ variant = "single"
    /\ calls[c][s].pc = "read"
    /\ LET snapshot == IF dbOk THEN GetPresence(presence) ELSE {}
           existingUser == HasRow(snapshot, c)
           newRole == IF existingUser THEN RowOf(snapshot, c).role
                      ELSE AssignRole(snapshot)
       IN /\ ui' = [ui EXCEPT ![c].role = newRole]
          /\ effects' = IF newRole # ui[c].role
                        THEN EffectsAfter(c, ui[c].displayName, newRole)
                        ELSE effects
          /\ calls' = [calls EXCEPT ![c][s] =
                          IF existingUser THEN Returned
                          ELSE [pc |-> "write", roomId |-> "none", newRole |-> newRole]]
          /\ History(dbOk /\ snapshot = presence, Joined(c, "none"))
    /\ UNCHANGED <<variant, presence, started, now, nextId, dbMessages, appFrame>>

\* initializeChat: await updatePresence(clientId, name, newRole).
InitializeChatWrite(c, s, dbOk) ==
    /\ Fault(dbOk)
    /\ variant = "single"
    /\ calls[c][s].pc = "write"
    /\ presence' = IF dbOk THEN UpdatePresenceUpsert(presence, c, calls[c][s].newRole)
                   ELSE presence
    /\ calls' = [calls EXCEPT ![c][s] = Returned]
    /\ History(dbOk, joinLog)
    /\ UNCHANGED <<variant, ui, effects, started, now, nextId, dbMessages, appFrame>>

\* The service's 30-second interval: cleanupOldPresence.
CleanupOldPresence(dbOk) ==
    /\ Fault(dbOk)
    /\ variant = "single"
    /\ \E c \in Clients : ui[c].mounted
    /\ presence' = IF dbOk THEN CleanupRows(presence) ELSE presence
    /\ History(presence' = presence, joinLog)
    /\ UNCHANGED <<variant, ui, calls, effects, started, now, nextId, dbMessages,
                   appFrame>>

\* "Start Chatting!" on the setup screen.
StartChatting(c) ==
    /\ Extras(1)
    /\ variant = "single"
    /\ Screen(c) = "setup"
    /\ ui[c].myLanguage # ""
    /\ ui' = [ui EXCEPT ![c].currentSender =
                            IF ui[c].role = "user1" THEN "user1" ELSE "user2"]
    /\ UNCHANGED <<variant, presence, calls, effects, started, joinLog, clean, now,
                   nextId, dbMessages, appFrame>>

\* "Switch user" in the chat header.
SwitchSender(c) ==
    /\ Extras(1)
    /\ variant = "single"
    /\ Screen(c) = "chat"
    /\ ui' = [ui EXCEPT ![c].currentSender = IF @ = "user1" THEN "user2" ELSE "user1"]
    /\ UNCHANGED <<variant, presence, calls, effects, started, joinLog, clean, now,
                   nextId, dbMessages, appFrame>>

Init ==
    /\ variant \in {"rooms", "single"}
    /\ presence = {}
    /\ ui = [c \in Clients |-> InitialUI]
    /\ calls = [c \in Clients |-> [s \in Slots |-> NoCall]]
    /\ effects = [c \in Clients |-> {}]
    /\ started = 0 /\ joinLog = <<>> /\ clean = TRUE
    /\ TrIdle
    /\ LogIdle
    /\ ChatIdle
    /\ PresIdle
    /\ IdIdle
    /\ SubIdle

Next ==
    \/ variant = "single" /\ Tick
    \/ \E c \in Clients : OpenTab(c)
    \/ \E c \in Clients, lang \in AppLanguages : SetMyLanguage(c, lang)
    \/ \E c \in Clients : ChooseRoom(c)
    \/ \E c \in Clients, roomId \in Rooms, s \in Slots : JoinRoomClick(c, roomId, s)
    \/ \E c \in Clients, s \in Slots, dbOk \in BOOLEAN : JoinRoomRead(c, s, dbOk)
    \/ \E c \in Clients, s \in Slots, dbOk \in BOOLEAN : JoinRoomWrite(c, s, dbOk)
    \/ \E c \in Clients : BackToSetup(c)
    \/ \E c \in Clients, role \in Roles, dbOk \in BOOLEAN : PresenceEffect(c, role, dbOk)
    \/ \E c \in Clients, dbOk \in BOOLEAN : HideTab(c, dbOk)
    \/ \E c \in Clients, presenceOk \in BOOLEAN, chatOk \in BOOLEAN :
           ClearAll(c, presenceOk, chatOk)
    \/ \E c \in Clients, chatOk \in BOOLEAN : GoBackToLanguageSelection(c, chatOk)
    \/ \E c \in Clients, text \in Typed :
           /\ Extras(1) /\ nextId <= MaxSends
           /\ text # "" => Cardinality({d \in Clients : ui[d].newMessage # ""}) < MaxDrafts
           /\ TypeMessage(c, text)
    \/ \E c \in Clients, via \in {"button", "enter"}, dbOk \in BOOLEAN :
           Fault(dbOk) /\ nextId <= MaxSends /\ SendMessage(c, via, dbOk, TRUE)
    \/ \E c \in Clients : Continue(c)
    \/ \E c \in Clients, s \in Slots, dbOk \in BOOLEAN : InitializeChatCleanup(c, s, dbOk)
    \/ \E c \in Clients, s \in Slots, dbOk \in BOOLEAN : InitializeChatRead(c, s, dbOk)
    \/ \E c \in Clients, s \in Slots, dbOk \in BOOLEAN : InitializeChatWrite(c, s, dbOk)
    \/ \E dbOk \in BOOLEAN : CleanupOldPresence(dbOk)
    \/ \E c \in Clients : StartChatting(c)
    \/ \E c \in Clients : SwitchSender(c)

Spec == Init /\ [][Next]_vars

(***************************************************************************)
(*         THE CHAT SCREEN: SENDING, TRANSLATION, TYPING INDICATOR         *)
(*                                                                         *)
(* Two tabs have joined one room as user1 and user2, each with a language  *)
(* of its own choice.  A send inserts the message and, when the sender's   *)
(* screen shows two participants with different languages, leaves a        *)
(* translation running in the background (src/src/App.tsx), or awaits it   *)
(* (the one-room App).  Ticks are ten seconds.                             *)
(***************************************************************************)

\* Messages sent in one run of the chat screen, and the ticks of one run.
MaxChatSends == 2
MaxChatTime == 1

\* getTypingIndicator keeps the rows written in the last ten seconds.
TypingWindow == 1

\* null, as the value of getTypingIndicator
Null == [user |-> "null"]

\* presence.find(p => p.role === role) on a snapshot ordered by last_seen,
\* newest first: the rows with the role, and the one find returns.
WithRole(snapshot, role) == {p \in snapshot : p.role = role}
FindRole(snapshot, role) ==
    CHOOSE p \in WithRole(snapshot, role) :
        \A q \in WithRole(snapshot, role) : q.lastSeen <= p.lastSeen

\* The presence subscription's callback of the App on a snapshot
\* (user1?.name || null, user1?.language || '').
OnPresence(v, snapshot) ==
    LET name(role) == IF WithRole(snapshot, role) = {} THEN ""
                      ELSE FindRole(snapshot, role).name
        language(role) == IF WithRole(snapshot, role) = {} THEN ""
                          ELSE FindRole(snapshot, role).language
    IN  [v EXCEPT !.user1OnlineName = name("user1"),
                  !.user2OnlineName = name("user2"),
                  !.user1Language = language("user1"),
                  !.user2Language = language("user2")]

\* A postgres_changes event on table presence reaches tab c: getPresence,
\* then the callback.  Without a client getPresence throws and no callback
\* runs; a failed query delivers [].
PresenceCallback(c, dbOk) ==
    /\ Screen(c) = "chat"
    /\ supabase = "client"
    /\ chat' = [chat EXCEPT ![c] = OnPresence(@, IF dbOk THEN presence ELSE {})]
    /\ chat'[c] # chat[c]
    /\ UNCHANGED <<typing, jobs, typingLog, appVars, logNoOps, trVars, idVars, subVars, presVars>>

\* Mutant: typing rows of any age are returned.
GetTypingIndicatorAnyAge(rows, dbOk) ==
    LET shown == {r \in rows : r.isTyping}
    IN  IF ~dbOk \/ shown = {} THEN Null
        ELSE CHOOSE r \in shown : \A q \in shown : q.timestamp <= r.timestamp

\* getTypingIndicator: .eq('is_typing', true).gt('timestamp', now - 10 s)
\* .order('timestamp', descending).limit(1).maybeSingle(); a failed query
\* yields null.
GetTypingIndicator(rows, dbOk) ==
    LET shown == {r \in rows : r.isTyping /\ r.timestamp > now - TypingWindow}
    IN  IF ~dbOk \/ shown = {} THEN Null
        ELSE CHOOSE r \in shown : \A q \in shown : q.timestamp <= r.timestamp

\* A postgres_changes event on table typing_indicators reaches tab c:
\* getTypingIndicator, then setTypingIndicator(typing) of the App.
TypingCallback(c, dbOk) ==
    /\ variant = "rooms"
    /\ Screen(c) = "chat"
    /\ supabase = "client"
    /\ chat' = [chat EXCEPT ![c].typingIndicator = GetTypingIndicator(typing, dbOk)]
    /\ chat'[c] # chat[c]
    /\ UNCHANGED <<typing, jobs, typingLog, appVars, logNoOps, trVars, idVars, subVars, presVars>>

\* What the App's translateText wrapper resolves to: the text itself when
\* the two languages are equal (no call to the service), else what the
\* service returned.
TranslateTextWrapper(text, from, to, served) ==
    IF from = to THEN text ELSE served

\* What translationService.translateText can return for a text.
Served(text, from, to) == {"Hola", GetMockTranslation(text, from, to)}

\* The update sendMessage issues when the translation has arrived.
TranslationUpdate(translated) ==
    IF variant = "rooms"
    THEN [translatedText |-> translated, isTranslating |-> FALSE]
    ELSE [translatedText |-> translated]

\* The translation of message id settles and its continuation runs:
\* updateMessage, which throws without a client and swallows a store error.
\*   src/src/App.tsx: .then (updateMessage), .catch (updateMessage again,
\*     which throws again without a client), .finally (arms the timer);
\*   one-room App: await updateMessage, finally setTypingUser(null), and
\*     the outer catch shows the alert when updateMessage threw.
TranslationSettles(id, served, dbOk) ==
    /\ id \in DOMAIN jobs
    /\ jobs[id].pc = "translating"
    /\ LET j == jobs[id]
           translated == TranslateTextWrapper(j.text, j.from, j.to, served)
       IN  /\ served \in Served(j.text, j.from, j.to)
           /\ dbMessages' = IF supabase = "client" /\ dbOk
                            THEN DBUpdateRows(dbMessages, id, TranslationUpdate(translated))
                            ELSE dbMessages
           /\ IF variant = "rooms"
              THEN /\ jobs' = [jobs EXCEPT ![id].pc = "timer"]
                   /\ UNCHANGED chat
              ELSE /\ jobs' = [jobs EXCEPT ![id].pc = "done"]
                   /\ chat' = [chat EXCEPT
                          ![j.tab].typingUser = "",
                          ![j.tab].alerts = IF supabase = "client" THEN @ ELSE @ + 1]
    /\ UNCHANGED <<typing, typingLog, appVars, trVars, idVars, subVars, presVars, backend, now, nextId, supabase,
                   lsMessages, ctMessages, channel, opResult>>

\* minTypingDuration (1000 ms) goes by for the translation of message id,
\* within the tick in which its indicator was raised.
MinTypingDurationPasses(id) ==
    /\ variant = "rooms"
    /\ id \in DOMAIN jobs
    /\ jobs[id].pc \in {"translating", "timer"}
    /\ ~jobs[id].aged /\ jobs[id].typingStartTime = now
    /\ jobs' = [jobs EXCEPT ![id].aged = TRUE]
    /\ UNCHANGED <<chat, typing, typingLog, appVars, logVars, trVars, idVars, subVars, presVars>>

\* Mutant: the timer is armed with no delay.
RemainingTimeZero(j) == TRUE

\* remainingTime = max(0, minTypingDuration - elapsed) is over: 1000 ms or
\* more have gone by since typingStartTime.
RemainingTimeOver(j) == j.aged \/ now > j.typingStartTime

\* The timer armed by .finally fires: setTypingIndicator(currentSender,
\* false); nobody handles its rejection.
TypingTimer(id, dbOk) ==
    /\ id \in DOMAIN jobs
    /\ jobs[id].pc = "timer"
    /\ RemainingTimeOver(jobs[id])
    /\ jobs' = [jobs EXCEPT ![id].pc = "done", ![id].aged = TRUE]
    /\ IF supabase = "client" /\ dbOk
       THEN /\ typing' = SetTypingIndicator(typing, jobs[id].sender, FALSE)
            /\ typingLog' = Append(typingLog,
                   [user |-> jobs[id].sender, isTyping |-> FALSE, timestamp |-> now])
       ELSE UNCHANGED <<typing, typingLog>>
    /\ UNCHANGED <<chat, appVars, trVars, idVars, subVars, presVars, backend, now, nextId, supabase, dbMessages,
                   lsMessages, ctMessages, channel, opResult>>

\* The state of a tab that has joined the chat.
JoinedUI(name, language, role) ==
    [InitialUI EXCEPT !.mounted = TRUE, !.displayName = name, !.myLanguage = language,
                      !.role = role, !.currentSender = role]

\* Its chat screen after the language sync effect has run.
JoinedChat(language, role) ==
    IF role = "user1" THEN [InitialChat EXCEPT !.user1Language = language]
    ELSE [InitialChat EXCEPT !.user2Language = language]

PresenceRow(c, name, role, language, roomId) ==
    [clientId |-> c, name |-> name, role |-> role, language |-> language,
     roomId |-> roomId, lastSeen |-> 0]

InitChat ==
    /\ TrIdle
    /\ LogIdle
    /\ variant \in {"rooms", "single"}
    /\ \E l1 \in LanguageCodes, l2 \in LanguageCodes :
         LET roomId == IF variant = "rooms" THEN "r1" ELSE "none"
         IN  /\ ui = [c \in Clients |->
                        CASE c = "c1" -> JoinedUI("Ann", l1, "user1")
                          [] c = "c2" -> JoinedUI("Bob", l2, "user2")
                          [] OTHER -> InitialUI]
             /\ chat = [c \in Clients |->
                        CASE c = "c1" -> JoinedChat(l1, "user1")
                          [] c = "c2" -> JoinedChat(l2, "user2")
                          [] OTHER -> InitialChat]
             /\ presence = {PresenceRow("c1", "Ann", "user1", l1, roomId),
                            PresenceRow("c2", "Bob", "user2", l2, roomId)}
             /\ joinLog = <<[clientId |-> "c1", roomId |-> roomId],
                            [clientId |-> "c2", roomId |-> roomId]>>
    /\ calls = [c \in Clients |-> [s \in Slots |->
                   IF c \in {"c1", "c2"} /\ s = 1 THEN Returned ELSE NoCall]]
    /\ effects = [c \in Clients |-> {}]
    /\ started = 2 /\ clean = TRUE
    /\ typing = {} /\ jobs = <<>> /\ typingLog = <<>>
    /\ PresIdle
    /\ IdIdle
    /\ SubIdle


\* The sends of the run so far: the messages inserted and the alerts shown.
RECURSIVE Alerts(_)
Alerts(tabs) ==
    IF tabs = {} THEN 0
    ELSE LET c == CHOOSE d \in tabs : TRUE
         IN  chat[c].alerts + Alerts(tabs \ {c})
SendsLeft == nextId - 1 + Alerts(Clients) < MaxChatSends

NextChat ==
    \/ now < MaxChatTime /\ Tick
    \/ ConnectionTestFails
    \/ \E c \in Clients, dbOk \in BOOLEAN : Fault(dbOk) /\ PresenceCallback(c, dbOk)
    \/ \E c \in Clients, dbOk \in BOOLEAN : Fault(dbOk) /\ TypingCallback(c, dbOk)
    \/ \E c \in Clients, text \in Typed :
           /\ SendsLeft /\ UNCHANGED ops
           /\ text # "" => Cardinality({d \in Clients : ui[d].newMessage # ""}) < MaxDrafts
           /\ TypeMessage(c, text)
    \/ \E c \in Clients, via \in {"button", "enter"}, addOk \in BOOLEAN,
          typingOk \in BOOLEAN :
           /\ SendsLeft
           /\ ~typingOk => addOk /\ variant = "rooms" /\ NeedsTranslation(chat[c])
           /\ Extras(Faults(addOk) + Faults(typingOk))
           /\ SendMessage(c, via, addOk, typingOk)
    \/ \E id \in 1..MaxChatSends, served \in {"Hola"} \cup
              {GetMockTranslation(text, from, to) :
                  text \in Typed, from \in LanguageCodes, to \in LanguageCodes},
          dbOk \in BOOLEAN :
           Fault(dbOk) /\ TranslationSettles(id, served, dbOk)
    \/ \E id \in 1..MaxChatSends, dbOk \in BOOLEAN : Fault(dbOk) /\ TypingTimer(id, dbOk)
    \/ \E id \in 1..MaxChatSends : MinTypingDurationPasses(id)

SpecChat == InitChat /\ [][NextChat]_vars

(***************************************************************************)
(*                  CLAIMS ABOUT ROLES AND SENDING                         *)
(***************************************************************************)

\* The role the k-th joiner of a room is to get.
ExpectedRole(k) == IF k = 1 THEN "user1" ELSE IF k = 2 THEN "user2" ELSE "spectator"

\* The position of the i-th logged joiner among the joiners of its room.
Position(i) ==
    Cardinality({j \in 1..i : joinLog[j].roomId = joinLog[i].roomId})

\* C1: while the joins of a run have been sequential (each read and write
\* completed before the next join started, every request answered) and no
\* presence row was removed or expired, the first joiner of a room has role
\* user1, the second user2 and every later one spectator, in the component
\* and in its presence row.
C1_SequentialRoles ==
    clean =>
        \A i \in DOMAIN joinLog :
            LET c == joinLog[i].clientId
            IN /\ ui[c].role = ExpectedRole(Position(i))
               /\ HasRow(presence, c) => RowOf(presence, c).role = ExpectedRole(Position(i))

\* Three tabs have joined one room one after the other; the third is a spectator.
C1_Witness ==
    /\ clean /\ NoCallInFlight /\ Len(joinLog) = 3
    /\ \A i \in DOMAIN joinLog : joinLog[i].roomId = joinLog[1].roomId
    /\ \A i \in DOMAIN joinLog : HasRow(presence, joinLog[i].clientId)
    /\ ui[joinLog[3].clientId].role = "spectator"

\* Two tabs hold live rows of one room with role user1, and neither has a
\* join in progress or a role other than user1 in its component or in a
\* request in flight.
DuplicateUser1(c, d) ==
    /\ c # d
    /\ HasRow(presence, c) /\ HasRow(presence, d)
    /\ RowOf(presence, c).role = "user1" /\ RowOf(presence, d).role = "user1"
    /\ RowOf(presence, c).roomId = RowOf(presence, d).roomId
    /\ \A x \in {c, d} :
           /\ \A s \in Slots : calls[x][s].pc \in {"idle", "done"}
           /\ ui[x].role = "user1"
           /\ effects[x] \subseteq {"user1"}

\* C2: once two concurrent joins have left two live rows with role user1,
\* no step of the program repairs it: each of the two rows keeps role user1
\* until it is removed, and each component keeps role user1 until it is reset.
C2_DuplicateNeverRepaired ==
    [][\A c \in Clients, d \in Clients :
          DuplicateUser1(c, d) =>
              \A x \in {c, d} :
                  /\ HasRow(presence', x) => RowOf(presence', x).role = "user1"
                  /\ ui'[x].role \in {"user1", ""}]_vars

\* Two new tabs have joined one room concurrently, both reading the empty
\* snapshot before either wrote: both rows say user1.
C2_Witness ==
    /\ DuplicateUser1("c1", "c2")
    /\ RowOf(presence, "c1").roomId \in Rooms
    /\ started = 2 /\ ops = 0

\* C3: a join that reads the presence table while the joining client has a
\* live row assigns that row's role again.
C3_RejoinKeepsRole ==
    [][\A c \in Clients, s \in Slots :
          /\ (JoinRoomRead(c, s, TRUE) /\ HasRow(presence, c))
                 => ui'[c].role = RowOf(presence, c).role
          /\ (InitializeChatRead(c, s, TRUE) /\ HasRow(GetPresence(presence), c))
                 => ui'[c].role = RowOf(presence, c).role]_vars

\* C4: the role of a presence row does not change while the row exists.
C4_RowRoleFixed ==
    [][\A c \in Clients :
          HasRow(presence, c) /\ HasRow(presence', c)
              => RowOf(presence', c).role = RowOf(presence, c).role]_vars

\* C5: a send attempt of a tab whose role is spectator, from the Send button
\* or from the Enter key, adds no message.
C5_SpectatorCannotSend ==
    [][\A c \in Clients, via \in {"button", "enter"}, dbOk \in BOOLEAN :
          ui[c].role = "spectator" /\ SendMessage(c, via, dbOk, TRUE)
              => dbMessages' = dbMessages]_vars

(***************************************************************************)
(*                     CLAIMS ABOUT THE MESSAGE LOG                        *)
(***************************************************************************)

\* C9: in every backend the list getMessages returns (and hands to message
\* subscribers) is sorted ascending by the messages' creation timestamp.
C9_GetMessagesSorted ==
    /\ backend = "hosted" => IsSorted(HostedGetMessages)
    /\ backend = "polling" => IsSorted(LSGetMessages)
    /\ backend = "crosstab" => \A t \in Tabs : IsSorted(CTGetMessages(t))

\* The frame of updateMessage(id, u) between the lists before and after: same
\* length and order, every message with another id untouched, and in the
\* message with this id only fields of u changed.
UpdateFrame(old, new, id, u) ==
    /\ Len(new) = Len(old)
    /\ \A i \in 1..Len(old) :
          IF old[i].id = id
          THEN \A f \in DOMAIN old[i] \ DOMAIN u : new[i][f] = old[i][f]
          ELSE new[i] = old[i]

\* C10: updateMessage(id, fields) changes only the supplied fields of the one
\* message with that id, keeps every other message and the length and order of
\* the log, changes nothing for an unknown id, and no error reaches the caller
\* (hosted backend: while the client exists).
C10_UpdateMessageFrame ==
    [][\A id \in MsgIds, u \in Updates :
        /\ \A t \in Tabs :
              CTUpdateMessage(t, id, u)
                 => /\ UpdateFrame(CTGetMessages(t), CTGetMessages(t)', id, u)
                    /\ \A o \in Tabs \ {t} : ctMessages'[o] = ctMessages[o]
                    /\ opResult' = "ok"
        /\ LSUpdateMessage(id, u)
              => UpdateFrame(LSGetMessages, LSGetMessages', id, u) /\ opResult' = "ok"
        /\ \A dbOk \in BOOLEAN :
              (DBUpdateMessage(id, u, dbOk) /\ supabase = "client")
                 => UpdateFrame(HostedGetMessages, HostedGetMessages', id, u)
                    /\ opResult' = "ok"]_vars

\* An update has changed one of two stored messages and left the other alone.
C10_Witness ==
    /\ backend = "hosted" /\ supabase = "client" /\ opResult = "ok"
    /\ \E r \in dbMessages : r.translatedText = "Hola" /\ r.text = "Hello"
    /\ \E q \in dbMessages : q.translatedText = Undefined


(***************************************************************************)
(*                   CLAIMS ABOUT THE TRANSLATION GATEWAY                  *)
(***************************************************************************)

\* The call has gone through the whole chain without a usable answer: with a
\* key every primary attempt failed, and each of the three fallback providers
\* either threw or gave a text that fails isTargetLanguageSatisfied.
AllProvidersFailed(t) ==
    /\ t.key # "" => t.primaryCalls = maxRetries
    /\ \A s \in {t.libre, t.mm, t.gg} :
          \/ s.st = "err"
          \/ s.st = "ok" /\ ~IsTargetLanguageSatisfied(s.val, t.to)

\* C6: translateText(text, L, L) returns text unchanged and calls no provider,
\* with a key configured and without one.
C6_SameLanguageNoOp ==
    (tr.pc # "idle" /\ tr.fromLanguage = tr.toLanguage)
        => /\ tr.issued = {}
           /\ tr.pc = "returned"
           /\ tr.result = tr.text

\* C7: when from differs from to and every provider fails or fails the
\* satisfied-check, translateText returns "[from->to] " followed by the text.
C7_AllFailPlaceholder ==
    (tr.pc = "returned" /\ tr.fromLanguage # tr.toLanguage /\ AllProvidersFailed(tr))
        => tr.result = "[" \o tr.fromLanguage \o "->" \o tr.toLanguage \o "] " \o tr.text

C7_Witness ==
    /\ tr.pc = "returned"
    /\ tr.fromLanguage = "en" /\ tr.toLanguage = "ja"
    /\ tr.key # "" /\ tr.primaryCalls = maxRetries
    /\ tr.libre.st = "ok" /\ tr.libre.val = "Hola "
    /\ tr.mm.st = "err" /\ tr.gg.st = "err"
    /\ tr.result = "[en->ja] Hello"

MaxPresenceOps == 3

\* sharedChat.ts getPresence keeps the records seen in the last 30 seconds;
\* CrossTabService.cleanupOldPresence those seen in the last 60 seconds.
PollingWindow == 1
CrossTabWindow == 2

\* The name and the language of the user of a tab.
NameOf(t) == IF t = "t1" THEN "Ann" ELSE "Bob"
LanguageOf(t) == IF t = "t1" THEN "en" ELSE "ja"

\* presenceData of updatePresence; the polling service takes no language.
PresenceData(clientId, role, language) ==
    [clientId |-> clientId, name |-> NameOf(clientId), role |-> role,
     language |-> language, lastSeen |-> now]

\* presence.filter(p => now - p.lastSeen < window)
KeepFresh(list, window) ==
    LET Fresh(p) == now - p.lastSeen < window
    IN  SelectSeq(list, Fresh)

---------------------------------------------------------------------------
\* Cross-tab broadcast backend.

\* CrossTabService.getPresence: a copy of this tab's array.
CTGetPresence(t) == ctPresence[t]

CTUpdatePresence(t, role, language) ==
    /\ backend = "crosstab"
    /\ ops < MaxPresenceOps /\ CTCanPost(t)
    /\ ops' = ops + 1
    /\ LET data == PresenceData(t, role, language)
       IN  /\ ctPresence' = [ctPresence EXCEPT ![t] = Upsert(@, data)]
           /\ channel' = PostMessage(channel, t,
                             [type |-> "PRESENCE_UPDATED", data |-> data])
           /\ applied' = [applied EXCEPT ![t][t] = data]
    /\ subscriber' = [subscriber EXCEPT ![t] = Notify(@, ctPresence'[t])]
    /\ UNCHANGED <<backend, now, nextId, supabase, dbMessages, lsMessages, ctMessages,
                   opResult, trVars, idVars, subVars, appVars, chatVars, lsPresence, due>>

\* The cleanup interval's callback.
CTCleanupOldPresence(t) ==
    /\ backend = "crosstab"
    /\ t \in due
    /\ due' = due \ {t}
    /\ ctPresence' = [ctPresence EXCEPT ![t] = KeepFresh(@, CrossTabWindow)]
    /\ subscriber' = [subscriber EXCEPT ![t] = Notify(@, ctPresence'[t])]
    /\ UNCHANGED <<logVars, trVars, idVars, subVars, appVars, chatVars, lsPresence, applied>>

\* subscribeToPresence: the callback is added and called with getPresence().
CTSubscribeToPresence(t) ==
    /\ backend = "crosstab"
    /\ ~subscriber[t].on
    /\ subscriber' = [subscriber EXCEPT
                         ![t] = [on |-> TRUE, snapshot |-> CTGetPresence(t), at |-> now]]
    /\ UNCHANGED <<logVars, trVars, idVars, subVars, appVars, chatVars, lsPresence, ctPresence, due,
                   applied>>

---------------------------------------------------------------------------
\* Polling storage backend.

\* SharedChatService.getPresence
LSGetPresence == KeepFresh(lsPresence, PollingWindow)

\* updatePresence(clientId, name, role): read, upsert, write, then
\* notifyPresenceListeners, which reaches the listeners of this tab's
\* service instance only.
LSUpdatePresence(t, role) ==
    /\ backend = "polling"
    /\ ops < MaxPresenceOps
    /\ ops' = ops + 1
    /\ LET data == PresenceData(t, role, Undefined)
       IN  /\ lsPresence' = Upsert(LSGetPresence, data)
           /\ applied' = [applied EXCEPT !["store"][t] = data]
    /\ subscriber' = [subscriber EXCEPT
                         ![t] = Notify(@, KeepFresh(lsPresence', PollingWindow))]
    /\ due' = Tabs
    /\ UNCHANGED <<backend, now, nextId, supabase, dbMessages, lsMessages, ctMessages,
                   channel, opResult, trVars, idVars, subVars, appVars, chatVars, ctPresence>>

LSSubscribeToPresence(t) ==
    /\ backend = "polling"
    /\ ~subscriber[t].on
    /\ subscriber' = [subscriber EXCEPT
                         ![t] = [on |-> TRUE, snapshot |-> LSGetPresence, at |-> now]]
    /\ UNCHANGED <<logVars, trVars, idVars, subVars, appVars, chatVars, lsPresence, ctPresence, due,
                   applied>>

\* The polling interval's callback (every second, in every tab):
\* notifyListeners(), which calls the message listeners with getMessages();
\* the presence listeners are not called.
Poll(t) ==
    /\ backend = "polling"
    /\ t \in due
    /\ due' = due \ {t}
    /\ UNCHANGED <<logVars, trVars, idVars, subVars, appVars, chatVars, lsPresence, ctPresence,
                   subscriber, applied>>

---------------------------------------------------------------------------
\* Hosted backend (table presence, postgres_changes events).

\* .order('last_seen', { ascending: false }): the rows as a list, newest first.
RECURSIVE OrderByLastSeen(_)
OrderByLastSeen(rows) ==
    IF rows = {} THEN <<>>
    ELSE LET first == CHOOSE r \in rows : \A q \in rows : q.lastSeen <= r.lastSeen
         IN  <<first>> \o OrderByLastSeen(rows \ {first})

\* SupabaseChatService.getPresence of src/src: every row; a failed query
\* yields [].
HostedGetPresence(dbOk) == IF dbOk THEN OrderByLastSeen(presence) ELSE <<>>

\* A change of table presence is announced to every subscribed tab.
PostChange(ch) ==
    [t \in Tabs |-> IF subscriber[t].on
                    THEN Append(ch[t], [type |-> "postgres_changes"]) ELSE ch[t]]
CanPostChange == \A t \in Tabs : Len(channel[t]) < MaxChannel

\* updatePresence: throws without a client; a store error is swallowed.
HostedUpdatePresence(t, role, language, dbOk) ==
    /\ backend = "hosted"
    /\ ops < MaxPresenceOps /\ CanPostChange
    /\ ops' = ops + 1
    /\ IF supabase = "client" /\ dbOk
       THEN LET data == [PresenceData(t, role, language) EXCEPT !.lastSeen = now]
            IN  /\ presence' = {r \in presence : r.clientId # t} \cup {data}
                /\ applied' = [applied EXCEPT !["store"][t] = data]
                /\ channel' = PostChange(channel)
                /\ opResult' = "ok"
       ELSE /\ opResult' = IF supabase = "client" THEN "ok" ELSE "threw"
            /\ UNCHANGED <<presence, applied, channel>>
    /\ UNCHANGED <<backend, now, nextId, supabase, dbMessages, lsMessages, ctMessages,
                   trVars, idVars, subVars, chatVars, variant, ui, calls, effects, started, joinLog,
                   clean, lsPresence, ctPresence, subscriber, due>>

\* removePresence(clientId)
HostedRemovePresence(t, dbOk) ==
    /\ backend = "hosted"
    /\ ops < MaxPresenceOps /\ CanPostChange
    /\ ops' = ops + 1
    /\ HasRow(presence, t)
    /\ IF supabase = "client" /\ dbOk
       THEN /\ presence' = RemovePresence(presence, t)
            /\ channel' = PostChange(channel)
            /\ opResult' = "ok"
       ELSE /\ opResult' = IF supabase = "client" THEN "ok" ELSE "threw"
            /\ UNCHANGED <<presence, channel>>
    /\ UNCHANGED <<backend, now, nextId, supabase, dbMessages, lsMessages, ctMessages,
                   trVars, idVars, subVars, chatVars, variant, ui, calls, effects, started, joinLog,
                   clean, presVars>>

\* subscribeToPresence: the callback is added, getPresence().then(callback)
\* is started, and the method throws when there is no client (getPresence
\* then rejects and the callback is not called).
HostedSubscribeToPresence(t) ==
    /\ backend = "hosted"
    /\ ~subscriber[t].on
    /\ Len(channel[t]) < MaxChannel
    /\ subscriber' = [subscriber EXCEPT ![t].on = TRUE]
    /\ channel' = [channel EXCEPT ![t] = Append(@, [type |-> "getPresence"])]
    /\ opResult' = IF supabase = "client" THEN "ok" ELSE "threw"
    /\ UNCHANGED <<backend, now, nextId, ops, supabase, dbMessages, lsMessages,
                   ctMessages, trVars, idVars, subVars, appVars, chatVars, lsPresence, ctPresence, due,
                   applied>>

\* A pending getPresence of tab t is answered and the listener runs.
HostedNotify(t, dbOk) ==
    /\ backend = "hosted"
    /\ channel[t] # <<>>
    /\ ops + Faults(dbOk) <= MaxPresenceOps
    /\ ops' = ops + Faults(dbOk)
    /\ channel' = [channel EXCEPT ![t] = Tail(@)]
    /\ subscriber' = IF supabase = "client"
                     THEN [subscriber EXCEPT ![t] = Notify(@, HostedGetPresence(dbOk))]
                     ELSE subscriber
    /\ UNCHANGED <<backend, now, nextId, supabase, dbMessages, lsMessages,
                   ctMessages, opResult, trVars, idVars, subVars, appVars, chatVars, lsPresence,
                   ctPresence, due, applied>>

InitPresence ==
    /\ backend \in {"hosted", "crosstab", "polling"}
    /\ supabase = IF backend = "hosted" THEN "client" ELSE "null"
    /\ now = 0 /\ nextId = 1 /\ ops = 0
    /\ dbMessages = {} /\ lsMessages = <<>>
    /\ ctMessages = [t \in Tabs |-> <<>>]
    /\ channel = [t \in Tabs |-> <<>>]
    /\ opResult = "ok"
    /\ TrIdle
    /\ AppIdle
    /\ ChatIdle
    /\ PresIdle
    /\ IdIdle
    /\ SubIdle

NextPresence ==
    \/ due = {} /\ backend # "hosted" /\ Tick
    \/ \E t \in Tabs, role \in {"user1", "spectator"} :
           CTUpdatePresence(t, role, LanguageOf(t))
    \/ \E t \in Tabs : CTReceive(t)
    \/ \E t \in Tabs : CTCleanupOldPresence(t)
    \/ \E t \in Tabs : CTSubscribeToPresence(t)
    \/ \E t \in Tabs, role \in {"user1", "spectator"} : LSUpdatePresence(t, role)
    \/ \E t \in Tabs : LSSubscribeToPresence(t)
    \/ \E t \in Tabs : Poll(t)
    \/ ConnectionTestFails
    \/ \E t \in Tabs, role \in {"user1", "spectator"}, dbOk \in BOOLEAN :
           HostedUpdatePresence(t, role, LanguageOf(t), dbOk)
    \/ \E t \in Tabs, dbOk \in BOOLEAN : HostedRemovePresence(t, dbOk)
    \/ \E t \in Tabs : HostedSubscribeToPresence(t)
    \/ \E t \in Tabs, dbOk \in BOOLEAN : HostedNotify(t, dbOk)

SpecPresence == InitPresence /\ [][NextPresence]_vars

(***************************************************************************)
(*                   CLAIMS ABOUT THE CHAT SCREEN                          *)
(***************************************************************************)

\* C11: while a message is in the log its text, sender and senderName keep
\* the values it was created with, and its translatedText, once set, keeps
\* its value (it goes from unset to one value and never to a second one).
C11_MessageFieldsFixed ==
    [][\A m \in dbMessages : \A n \in dbMessages' :
          n.id = m.id =>
              /\ n.text = m.text
              /\ n.sender = m.sender
              /\ n.senderName = m.senderName
              /\ m.translatedText # Undefined => n.translatedText = m.translatedText]_vars

\* Two messages are in the log, both with a translation attached.
C11_Witness ==
    \E m \in dbMessages, n \in dbMessages :
        /\ m.id # n.id
        /\ m.translatedText # Undefined /\ n.translatedText # Undefined
        /\ m.text = "Hello"


(***************************************************************************)
(*                 CLAIMS ABOUT THE PRESENCE REGISTRIES                    *)
(***************************************************************************)

\* The staleness window of a backend, and the list getPresence returns to
\* tab t on it.
Window == IF backend = "polling" THEN PollingWindow ELSE CrossTabWindow
GetPresenceOf(t) == IF backend = "polling" THEN LSGetPresence ELSE CTGetPresence(t)

\* C12: in the backends that have a staleness window (polling storage, 30
\* seconds; cross-tab, 60 seconds) no record of a list returned by
\* getPresence, and no record of a snapshot handed to a presence subscriber,
\* is older than the window at the time it is returned or handed over.
C12_NoStaleRecord ==
    backend \in {"polling", "crosstab"} =>
        \A t \in Tabs :
            /\ \A i \in 1..Len(GetPresenceOf(t)) :
                   now - GetPresenceOf(t)[i].lastSeen < Window
            /\ \A i \in 1..Len(subscriber[t].snapshot) :
                   subscriber[t].at - subscriber[t].snapshot[i].lastSeen < Window


\* A stored list holds one record per client id at most, each the last
\* update applied to registry g for its client.
OnePerClient(list, g) ==
    /\ \A i \in 1..Len(list), j \in 1..Len(list) :
           list[i].clientId = list[j].clientId => i = j
    /\ \A i \in 1..Len(list) : list[i] = applied[g][list[i].clientId]

\* C13: whatever updatePresence calls, removals, expiries and received
\* presence broadcasts a registry has gone through, it holds at most one
\* record per clientId, and that record has the name, role, language and
\* lastSeen of the last update applied to it for that clientId.
C13_OneRecordPerClient ==
    /\ OnePerClient(lsPresence, "store")
    /\ \A t \in Tabs : OnePerClient(ctPresence[t], t)
    /\ backend = "hosted" => OnePerClient(OrderByLastSeen(presence), "store")
    /\ Cardinality({r.clientId : r \in presence}) = Cardinality(presence)

\* Tab t2 has handled two broadcasts of t1's updates, the second made a
\* tick after the first, and holds one record for t1.
C13_Witness ==
    /\ backend = "crosstab"
    /\ ops = 2 /\ channel["t2"] = <<>>
    /\ Len(ctPresence["t2"]) = 1
    /\ ctPresence["t2"][1].clientId = "t1"
    /\ ctPresence["t2"][1].lastSeen = 1
    /\ ctPresence["t2"][1].role = "spectator"


\* The list getPresence would return to tab t now, on the backend in use.
CurrentPresence(t) ==
    CASE backend = "polling" -> LSGetPresence
      [] backend = "crosstab" -> CTGetPresence(t)
      [] OTHER -> HostedGetPresence(TRUE)

Contains(list, r) == \E i \in 1..Len(list) : list[i] = r

\* C14: once nothing is left to deliver to a subscribed tab (no broadcast
\* or change event is pending for it, and its poll has run since the last
\* write), the snapshot its callback last got holds every record the
\* registry now returns: no update any tab made is left unannounced.
C14_EveryChangeDelivered ==
    \A t \in Tabs :
        (/\ subscriber[t].on
         /\ channel[t] = <<>> /\ t \notin due
         /\ backend \in {"crosstab", "polling"})
            => \A i \in 1..Len(CurrentPresence(t)) :
                   Contains(subscriber[t].snapshot, CurrentPresence(t)[i])


(***************************************************************************)
(*                  CLAIMS ABOUT THE TYPING INDICATOR                      *)
(***************************************************************************)

\* Ten seconds or less have passed since the row was written.
WithinWindow(r) == r.timestamp > now - TypingWindow

\* C15: whenever getTypingIndicator returns an indicator, it is a stored
\* row with isTyping = true written within the last ten seconds; when every
\* row with isTyping = true is older than that (or the query fails), it
\* returns null.
C15_TypingIndicatorFresh ==
    \A dbOk \in BOOLEAN :
        LET got == GetTypingIndicator(typing, dbOk)
        IN  /\ got # Null => got \in typing /\ got.isTyping /\ WithinWindow(got)
            /\ (\A r \in typing : r.isTyping => ~WithinWindow(r)) => got = Null

\* A row last set to typing has aged out of the window and null is returned.
C15_Witness ==
    /\ \E r \in typing : r.isTyping /\ ~WithinWindow(r)
    /\ GetTypingIndicator(typing, TRUE) = Null


\* The senders that have written the indicator, and a sender's latest write.
Writers == {typingLog[i].user : i \in 1..Len(typingLog)}
LastWrite(user) ==
    LET at == CHOOSE i \in 1..Len(typingLog) :
                  /\ typingLog[i].user = user
                  /\ \A k \in (i + 1)..Len(typingLog) : typingLog[k].user # user
    IN  typingLog[at]

ValidSend(c) == Trim(ui[c].newMessage) # "" /\ ui[c].myLanguage # ""

\* C17: when the hosted client is missing (not configured, or dropped by
\* the startup probe), a send is carried by a local transport: the message
\* is recorded in some log and no error is shown.
C17_LocalFallback ==
    [][\A c \in Clients, via \in {"button", "enter"}, addOk \in BOOLEAN,
         typingOk \in BOOLEAN :
          supabase = "null" /\ ValidSend(c) /\ SendMessage(c, via, addOk, typingOk)
              => /\ chat'[c].alerts = chat[c].alerts
                 /\ \/ dbMessages' # dbMessages
                    \/ lsMessages' # lsMessages
                    \/ ctMessages' # ctMessages]_vars

\* C18: when the insert of a send fails, the alert is shown and the input
\* still holds the text that was typed.
C18_InputKeptOnFailure ==
    [][\A c \in Clients, via \in {"button", "enter"}, addOk \in BOOLEAN,
         typingOk \in BOOLEAN :
          /\ ValidSend(c) /\ SendMessage(c, via, addOk, typingOk)
          /\ ~(supabase = "client" /\ addOk)
              => /\ chat'[c].alerts = chat[c].alerts + 1
                 /\ ui'[c].newMessage = ui[c].newMessage]_vars


\* C19: a stored message marked isTranslating has a translation that is
\* still to settle, whose continuation will clear the mark: no message is
\* left marked (and hidden from the receiver) with nothing left to run.
C19_TranslationPending ==
    \A m \in dbMessages :
        m.isTranslating => m.id \in DOMAIN jobs /\ jobs[m.id].pc = "translating"


\* The two participants have chosen the same language code.
SameLanguages == ui["c1"].myLanguage = ui["c2"].myLanguage

\* C20: while both participants have the same language, no send starts a
\* translation, none raises a typing indicator (neither a row of
\* typing_indicators nor the one-room App's typingUser), and no message
\* gets a translatedText or is marked as translating.
C20_NoTranslationSameLanguage ==
    SameLanguages =>
        /\ jobs = <<>>
        /\ typing = {} /\ typingLog = <<>>
        /\ \A c \in Clients : chat[c].typingUser = "" /\ chat[c].typingIndicator = Null
        /\ \A m \in dbMessages : m.translatedText = Undefined /\ ~m.isTranslating

\* Both senders have sent with both participants shown on their screens.
C20_Witness ==
    /\ SameLanguages
    /\ \A c \in {"c1", "c2"} :
           /\ chat[c].user1OnlineName = "Ann" /\ chat[c].user2OnlineName = "Bob"
           /\ chat[c].user1Language = chat[c].user2Language
           /\ chat[c].user1Language = ui[c].myLanguage
    /\ {m.sender : m \in dbMessages} = {"user1", "user2"}


(***************************************************************************)
(*                          THE CLIENT ID                                  *)
(*                                                                         *)
(* The repository holds three getOrCreateClientId: the in-memory one of    *)
(* realtime.ts, its sessionStorage one, and the one of the older           *)
(* realtime.ts that creates an id on every call.  A tab is one page load:  *)
(* its module state and its sessionStorage live as long as it does.        *)
(***************************************************************************)

\* Calls of getOrCreateClientId in one run.
MaxIdCalls == 5

\* generateClientId: Math.random() and Date.now() in base 36, a new id on
\* every call; the n-th id produced is written n.
GenerateClientId(n) == n + 1

\* What a call does: the id it returns, the module variable and the
\* sessionStorage item it leaves, the ids it has generated.
Outcome(id, cur, item, made) == [id |-> id, cur |-> cur, item |-> item, made |-> made]

\* realtime.ts, currentClientId kept in the module; nothing in the try
\* block can throw.
GetOrCreateInMemory(t) ==
    IF currentClientId[t] = 0
    THEN Outcome(GenerateClientId(generated), GenerateClientId(generated),
                 sessionStorage[t], 1)
    ELSE Outcome(currentClientId[t], currentClientId[t], sessionStorage[t], 0)

\* realtime.ts, the id kept in sessionStorage; when sessionStorage throws,
\* the catch block returns generateClientId().
GetOrCreateInSession(t) ==
    IF ~storageOk
    THEN Outcome(GenerateClientId(generated), currentClientId[t], sessionStorage[t], 1)
    ELSE IF sessionStorage[t] = 0
    THEN Outcome(GenerateClientId(generated), currentClientId[t],
                 GenerateClientId(generated), 1)
    ELSE Outcome(sessionStorage[t], currentClientId[t], sessionStorage[t], 0)

\* The older realtime.ts: an id is created on every call and stored; when
\* setItem throws, the catch block creates one more and returns it.
GetOrCreateAlways(t) ==
    IF storageOk
    THEN Outcome(GenerateClientId(generated), currentClientId[t],
                 GenerateClientId(generated), 1)
    ELSE Outcome(GenerateClientId(generated + 1), currentClientId[t],
                 sessionStorage[t], 2)

\* getOrCreateClientId of the build in use.
GetOrCreate(t) ==
    CASE idImpl = "memory" -> GetOrCreateInMemory(t)
      [] idImpl = "session" -> GetOrCreateInSession(t)
      [] OTHER -> GetOrCreateAlways(t)

\* Tab t calls getOrCreateClientId().
GetOrCreateClientId(t) ==
    /\ Len(returned["t1"]) + Len(returned["t2"]) < MaxIdCalls
    /\ LET o == GetOrCreate(t)
       IN  /\ currentClientId' = [currentClientId EXCEPT ![t] = o.cur]
           /\ sessionStorage' = [sessionStorage EXCEPT ![t] = o.item]
           /\ generated' = generated + o.made
           /\ returned' = [returned EXCEPT ![t] = Append(@, o.id)]
    /\ UNCHANGED <<idImpl, storageOk, trVars, subVars, logVars, appVars, chatVars, presVars>>

InitClientId ==
    /\ idImpl \in {"memory", "session", "fresh"}
    /\ storageOk \in BOOLEAN
    /\ currentClientId = [t \in Tabs |-> 0]
    /\ sessionStorage = [t \in Tabs |-> 0]
    /\ generated = 0
    /\ returned = [t \in Tabs |-> <<>>]
    /\ TrIdle
    /\ LogIdle
    /\ AppIdle
    /\ ChatIdle
    /\ PresIdle
    /\ SubIdle

NextClientId == \E t \in Tabs : GetOrCreateClientId(t)

SpecClientId == InitClientId /\ [][NextClientId]_vars

\* C21: within one tab, every call of getOrCreateClientId returns what the
\* tab's first call returned.
C21_ClientIdStable ==
    \A t \in Tabs : \A i \in 1..Len(returned[t]) : returned[t][i] = returned[t][1]


(***************************************************************************)
(*                  CLAIMS ABOUT THE TRANSLATION GATEWAY                   *)
(***************************************************************************)

\* A translateText call without a key, between two languages, has returned.
ReturnedWithoutKey ==
    tr.pc = "returned" /\ tr.key = "" /\ tr.fromLanguage # tr.toLanguage

FallbackRequests == {"libre1", "libre2", "libre3", "mymemory", "google"}

\* C23: with a key and two different languages, the primary provider is
\* called first and at most maxRetries = 2 times; a call that returned
\* without the fallback chain returned a primary result and no fallback
\* request was made; the fallback chain is started only when every primary
\* attempt was made (and failed).  Without a key the primary provider is
\* never called.
C23_PrimaryFirst ==
    /\ (tr.pc # "idle" /\ tr.key # "" /\ tr.fromLanguage # tr.toLanguage) =>
           /\ tr.primaryCalls <= maxRetries
           /\ tr.pc = "openai" =>
                  tr.attempt = tr.primaryCalls + 1 /\ tr.issued \cap FallbackRequests = {}
           /\ tr.issued \cap FallbackRequests # {} =>
                  tr.primaryCalls = maxRetries /\ tr.libre.st # "none"
           /\ (tr.pc = "returned" /\ tr.libre.st = "none") =>
                  /\ tr.issued = {"openai"} /\ tr.primaryCalls >= 1
                  /\ tr.result \in {Trim(b) : b \in ProviderTexts} \ {""}
    /\ (tr.pc # "idle" /\ tr.key = "") =>
           tr.primaryCalls = 0 /\ "openai" \notin tr.issued

\* The first primary attempt failed, the second answered, and the call
\* returned its answer without a fallback request.
C23_Witness ==
    /\ tr.pc = "returned" /\ tr.key # ""
    /\ tr.fromLanguage = "en" /\ tr.toLanguage = "ja"
    /\ tr.primaryCalls = 2 /\ tr.issued = {"openai"}
    /\ tr.result = "Hola"


\* The check of the claim: the text is not empty and, for target ja, holds
\* a character of a Japanese script.
PassesCheck(text, target) == text # "" /\ (target = "ja" => HasJapaneseScript(text))

\* A provider call that succeeded with a result passing the check.
Usable(s) == s.st = "ok" /\ PassesCheck(s.val, tr.to)

\* C24: a call that returned from the fallback chain returned the result of
\* LibreTranslate if that is usable, else of MyMemory if that is usable,
\* else of Google if that is usable, whatever order the three completed in;
\* it returned the placeholder only when none is usable.
C24_FirstUsableInOrder ==
    (tr.pc = "returned" /\ tr.libre.st # "none") =>
        /\ Usable(tr.libre) => tr.result = tr.libre.val
        /\ (~Usable(tr.libre) /\ Usable(tr.mm)) => tr.result = tr.mm.val
        /\ (~Usable(tr.libre) /\ ~Usable(tr.mm) /\ Usable(tr.gg)) => tr.result = tr.gg.val
        /\ tr.result = GetMockTranslation(tr.text, tr.from, tr.to)
               => ~Usable(tr.libre) /\ ~Usable(tr.mm) /\ ~Usable(tr.gg)

\* LibreTranslate answered with a text that fails the check for ja, MyMemory
\* and Google both answered in Japanese script: MyMemory's answer is returned.
C24_Witness ==
    /\ tr.pc = "returned" /\ tr.to = "ja"
    /\ tr.libre.st = "ok" /\ tr.libre.val = "Hola "
    /\ tr.mm.st = "ok" /\ tr.mm.val = "<ja>konnichiwa"
    /\ tr.gg.st = "ok" /\ tr.gg.val = "<ja>konnichiwa"
    /\ tr.result = tr.mm.val


\* C25: every fallback request in flight has its abort timer armed (or
\* already fired, which rejects the fetch), so no provider call is left
\* waiting on an endpoint that never responds.
C25_TimeoutArmed ==
    tr.pc = "fallbacks" =>
        \A s \in {tr.libre, tr.mm, tr.gg} :
            /\ s.st = "run" => s.timer \in {"armed", "fired"}
            /\ s.st # "hung"


(***************************************************************************)
(*                CLAIMS ABOUT THE TYPING INDICATOR'S TIMING               *)
(***************************************************************************)

\* The store has applied a write that lowers the indicator of sender u.
LoweredIn(u, log) == log # <<>> /\ log[Len(log)] = [user |-> u, isTyping |-> FALSE,
                                                    timestamp |-> now]

\* C26 (src/src/App.tsx): a translation call starts only with the
\* sender's indicator row raised at that moment, and every write that
\* lowers a sender's indicator is made for a translation of that sender
\* that has settled and whose indicator was raised 1000 ms or more before.
C26_TypingAroundTranslation ==
    [][/\ \A id \in DOMAIN jobs' \ DOMAIN jobs :
             variant = "rooms" =>
                 /\ [user |-> jobs'[id].sender, isTyping |-> TRUE, timestamp |-> now]
                        \in typing'
                 /\ jobs'[id].pc = "translating"
       /\ \A u \in {"user1", "user2"} :
             (typingLog' # typingLog /\ LoweredIn(u, typingLog')) =>
                 \E id \in DOMAIN jobs :
                     /\ jobs[id].sender = u
                     /\ jobs[id].pc = "timer" /\ jobs'[id].pc = "done"
                     /\ jobs[id].aged \/ now > jobs[id].typingStartTime]_vars

\* A translation settled, its minimum duration went by within the same
\* tick, and the lowering write was applied.
C26_Witness ==
    /\ variant = "rooms" /\ now = 0
    /\ \E id \in DOMAIN jobs : jobs[id].pc = "done" /\ jobs[id].typingStartTime = 0
    /\ Len(typingLog) = 2 /\ typingLog[1].isTyping /\ ~typingLog[2].isTyping


(***************************************************************************)
(*                  CLAIMS ABOUT THE CHOICE OF BACKEND                     *)
(***************************************************************************)

\* C27: once an operation of the session has run, what the operations
\* read as the hosted client (realtime.ts `supabase`) does not change: no
\* operation finds the hosted backend available and a later one finds it
\* unavailable, or the reverse.
C27_BackendChosenOnce ==
    [][ops > 0 => supabase' = supabase]_vars


(***************************************************************************)
(*              CLAIMS ABOUT ROLES, RECORDS AND SENDERS                    *)
(***************************************************************************)

\* Client c holds a participant role and the registry has its record with
\* that role.
Backed(rows, c) ==
    CanSend(c) /\ HasRow(rows, c) /\ RowOf(rows, c).role = ui[c].role

\* C28: the record that backs the participant role of an open tab stays in
\* the registry, with that role, for as long as the tab keeps the role.
C28_RoleBackedByRecord ==
    [][\A c \in Clients :
          (Backed(presence, c) /\ ui'[c].mounted /\ ui'[c].role = ui[c].role)
              => HasRow(presence', c) /\ RowOf(presence', c).role = ui[c].role]_vars


\* C29: the sender field of every message a send adds to the log is the
\* role, user1 or user2, that the sending client holds at that moment.
C29_SenderIsRole ==
    [][\A c \in Clients, via \in {"button", "enter"}, dbOk \in BOOLEAN :
          SendMessage(c, via, dbOk, TRUE) =>
              \A m \in dbMessages' \ dbMessages :
                  m.sender = ui[c].role /\ ui[c].role \in {"user1", "user2"}]_vars


\* The live records of the room a join of client c reads: the rows of the
\* room (rooms App), the rows seen within the presence window (one-room App).
LiveRecords(c, s) ==
    IF variant = "rooms" THEN {p \in presence : p.roomId = calls[c][s].roomId}
    ELSE GetPresence(presence)

\* C30: a join computes role user1 (user2) only from a read that succeeded
\* and at a moment when the store holds no live user1 (user2) record of
\* the room.
C30_RoleFromSuccessfulRead ==
    [][\A c \in Clients, s \in Slots, dbOk \in BOOLEAN, role \in {"user1", "user2"} :
          (/\ JoinRoomRead(c, s, dbOk) \/ InitializeChatRead(c, s, dbOk)
           /\ calls'[c][s].newRole = role)
              => dbOk /\ ~\E p \in LiveRecords(c, s) : p.role = role]_vars


(***************************************************************************)
(*          THE MESSAGE SUBSCRIPTION OF THE HOSTED BACKEND                 *)
(*                                                                         *)
(* Each tab has its own SupabaseChatService with at most one callback in   *)
(* messageListeners.  A getMessages request is sent, answered by the store *)
(* and resolved in the tab in three separate steps; the requests of one    *)
(* tab are independent HTTP requests.  subscribeToPresence and             *)
(* subscribeToTypingIndicator have the same shape over their tables.  The  *)
(* client is present throughout (supabase = "client").                     *)
(***************************************************************************)

\* Changes of table messages in one run.
MaxStoreChanges == 2

\* A column the insert did not supply.
SqlNull == "null"

\* The roomId a tab subscribes with: currentRoomId || undefined.
SubRooms == {Undefined, "r1"}

\* messageData of sendMessage (App.tsx): roomId is currentRoomId || ''.
SubMessages ==
    [text : {"Hello"}, sender : {"user1"}, senderName : {"Ann"}, senderId : {"t1"},
     roomId : {"r1", ""}, showOriginal : {FALSE}, isTranslating : {FALSE}]

\* insertData of addMessage: the columns the insert supplies.
InsertData(message) ==
    [text |-> message.text, translatedText |-> Undefined, sender |-> message.sender,
     senderName |-> message.senderName, showOriginal |-> message.showOriginal,
     isTranslating |-> message.isTranslating]

\* The inserted row as getMessages maps it: id and created_at come from the
\* store, sender_id and room_id were not supplied.
HostedRow(insertData, id, ts) ==
    [id |-> id, text |-> insertData.text, translatedText |-> insertData.translatedText,
     sender |-> insertData.sender, senderName |-> insertData.senderName,
     senderId |-> SqlNull, roomId |-> SqlNull, timestamp |-> ts,
     showOriginal |-> insertData.showOriginal,
     isTranslating |-> insertData.isTranslating]

\* getMessages(roomId): if (roomId) query.eq('room_id', roomId); rows oldest
\* first; a failed query yields [].
HostedGetMessagesIn(roomId, dbOk) ==
    IF dbOk
    THEN OrderByCreatedAt({r \in dbMessages :
                              roomId \in {Undefined, ""} \/ r.roomId = roomId})
    ELSE <<>>

\* A postgres_changes event reaches every tab whose channel is subscribed.
Announce(ch) ==
    [t \in Tabs |-> IF msgSub[t].state = "on"
                    THEN Append(ch[t], [type |-> "postgres_changes"]) ELSE ch[t]]

\* A getMessages request just sent.
Request(cause) == [cause |-> cause, st |-> "sent", data |-> <<>>, rev |-> 0]

\* The sequence without its i-th element.
Without(seq, i) == SubSeq(seq, 1, i - 1) \o SubSeq(seq, i + 1, Len(seq))

\* subscribeToMessages(callback, roomId): the callback is added, the initial
\* getMessages(roomId).then(callback) is started, the channel is subscribed.
SubscribeToMessages(t, roomId) ==
    /\ backend = "hosted" /\ supabase = "client"
    /\ msgSub[t].state = "none"
    /\ msgSub' = [msgSub EXCEPT ![t].state = "on", ![t].roomId = roomId]
    /\ fetches' = [fetches EXCEPT ![t] = Append(@, Request("initial"))]
    /\ UNCHANGED <<revision, logVars, trVars, idVars, appVars, chatVars, presVars>>

\* addMessage(message) by any client: throws when the insert fails.
HostedAddMessage(message, dbOk) ==
    /\ backend = "hosted" /\ supabase = "client"
    /\ ops < MaxStoreChanges
    /\ \A t \in Tabs : Len(channel[t]) < MaxChannel
    /\ ops' = ops + 1
    /\ IF dbOk
       THEN /\ dbMessages' = dbMessages \cup {HostedRow(InsertData(message), nextId, now)}
            /\ nextId' = nextId + 1
            /\ revision' = revision + 1
            /\ channel' = Announce(channel)
            /\ opResult' = "ok"
       ELSE /\ opResult' = "threw"
            /\ UNCHANGED <<dbMessages, nextId, revision, channel>>
    /\ UNCHANGED <<backend, now, supabase, lsMessages, ctMessages, msgSub, fetches,
                   trVars, idVars, appVars, chatVars, presVars>>

\* The channel's postgres_changes handler of tab t: getMessages(roomId) is
\* sent.
ChangeEvent(t) ==
    /\ backend = "hosted"
    /\ channel[t] # <<>>
    /\ channel' = [channel EXCEPT ![t] = Tail(@)]
    /\ fetches' = [fetches EXCEPT ![t] = Append(@, Request("change"))]
    /\ UNCHANGED <<backend, now, nextId, ops, supabase, dbMessages, lsMessages,
                   ctMessages, opResult, revision, msgSub, trVars, idVars, appVars,
                   chatVars, presVars>>

\* The store answers the i-th request of tab t from the table as it is now.
FetchAnswered(t, i, dbOk) ==
    /\ backend = "hosted"
    /\ i \in 1..Len(fetches[t]) /\ fetches[t][i].st = "sent"
    /\ ops + Faults(dbOk) <= MaxStoreChanges
    /\ ops' = ops + Faults(dbOk)
    /\ fetches' = [fetches EXCEPT ![t][i] =
                      [@ EXCEPT !.st = "answered",
                                !.data = HostedGetMessagesIn(msgSub[t].roomId, dbOk),
                                !.rev = revision]]
    /\ UNCHANGED <<backend, now, nextId, supabase, dbMessages, lsMessages, ctMessages,
                   channel, opResult, revision, msgSub, trVars, idVars, appVars,
                   chatVars, presVars>>

\* The callback of a tab is called with a snapshot; late records a call made
\* after the tab unsubscribed.
Called(sub, f) ==
    [sub EXCEPT !.snapshot = f.data, !.rev = f.rev, !.called = TRUE,
                !.late = @ \/ sub.state = "off"]

\* Whom a resolved request reaches: .then(callback) for the initial fetch,
\* messageListeners.forEach for a change.
Reaches(sub, f) == f.cause = "initial" \/ sub.state = "on"

\* The promise of the i-th request of tab t resolves.
FetchResolves(t, i) ==
    /\ backend = "hosted"
    /\ i \in 1..Len(fetches[t]) /\ fetches[t][i].st = "answered"
    /\ fetches' = [fetches EXCEPT ![t] = Without(@, i)]
    /\ msgSub' = [msgSub EXCEPT ![t] = IF Reaches(@, fetches[t][i])
                                       THEN Called(@, fetches[t][i]) ELSE @]
    /\ UNCHANGED <<revision, logVars, trVars, idVars, appVars, chatVars, presVars>>

\* The function subscribeToMessages returned: the callback is deleted and,
\* the set being empty, the channel is unsubscribed.
Unsubscribe(t) ==
    /\ backend = "hosted"
    /\ msgSub[t].state = "on"
    /\ msgSub' = [msgSub EXCEPT ![t].state = "off"]
    /\ channel' = [channel EXCEPT ![t] = <<>>]
    /\ UNCHANGED <<backend, now, nextId, ops, supabase, dbMessages, lsMessages,
                   ctMessages, opResult, revision, fetches, trVars, idVars, appVars,
                   chatVars, presVars>>

InitSubscribe ==
    /\ backend = "hosted" /\ supabase = "client"
    /\ now = 0 /\ nextId = 1 /\ ops = 0
    /\ dbMessages = {} /\ lsMessages = <<>>
    /\ ctMessages = [t \in Tabs |-> <<>>]
    /\ channel = [t \in Tabs |-> <<>>]
    /\ opResult = "ok"
    /\ TrIdle
    /\ AppIdle
    /\ ChatIdle
    /\ PresIdle
    /\ IdIdle
    /\ SubIdle

NextSubscribe ==
    \/ \E t \in Tabs, roomId \in SubRooms : SubscribeToMessages(t, roomId)
    \/ \E message \in SubMessages, dbOk \in BOOLEAN : HostedAddMessage(message, dbOk)
    \/ \E t \in Tabs : ChangeEvent(t)
    \/ \E t \in Tabs, i \in 1..(MaxStoreChanges + 1), dbOk \in BOOLEAN :
           FetchAnswered(t, i, dbOk)
    \/ \E t \in Tabs, i \in 1..(MaxStoreChanges + 1) : FetchResolves(t, i)
    \/ \E t \in Tabs : Unsubscribe(t)

SpecSubscribe == InitSubscribe /\ [][NextSubscribe]_vars

\* C31: in the hosted backend a listener's snapshots never go back to an
\* older state of the table, and when no notification and no request of a
\* subscribed tab is pending, its last snapshot is of the table as it is now.
C31_SnapshotsInOrder ==
    [][\A t \in Tabs :
          /\ msgSub'[t].rev >= msgSub[t].rev
          /\ (/\ msgSub'[t].state = "on" /\ msgSub'[t].called
              /\ channel'[t] = <<>> /\ fetches'[t] = <<>>)
             => msgSub'[t].rev = revision']_vars

\* C32: once a tab has called the function subscribeToMessages returned, its
\* callback is not called again.
C32_SilentAfterUnsubscribe == \A t \in Tabs : ~msgSub[t].late

\* C36: a message the hosted backend added comes back from getMessages of its
\* roomId with every field it was passed with.
C36_FieldsRoundTrip ==
    [][\A message \in SubMessages :
          HostedAddMessage(message, TRUE) =>
              \E i \in 1..Len(HostedGetMessagesIn(message.roomId, TRUE)') :
                  LET m == HostedGetMessagesIn(message.roomId, TRUE)'[i]
                  IN  /\ m.id = nextId
                      /\ \A f \in DOMAIN message : m[f] = message[f]]_vars


(***************************************************************************)
(*                 CLAIMS ABOUT CONVERGENCE AND OVERLAP                    *)
(***************************************************************************)

\* The messages a tab holds, as a set.
MessageSet(list) == {list[i] : i \in 1..Len(list)}

\* C33: in the cross-tab backend, when no broadcast is waiting to be handled,
\* every tab holds the same set of messages.
C33_TabsConverge ==
    (backend = "crosstab" /\ \A t \in Tabs : channel[t] = <<>>)
        => \A t, u \in Tabs : MessageSet(ctMessages[t]) = MessageSet(ctMessages[u])


\* C34: while a translation a sender's send started is in flight, the
\* sender's row of typing_indicators says isTyping = true.
C34_TypingWhileInFlight ==
    \A id \in DOMAIN jobs :
        (variant = "rooms" /\ jobs[id].pc = "translating")
            => \E r \in typing : r.user = jobs[id].sender /\ r.isTyping


\* C35: a sendMessage whose addMessage succeeded shows no failure alert and
\* starts the translation when one is needed.
C35_AlertOnlyIfNotAdded ==
    [][nextId' = nextId + 1 =>
          \A c \in Clients :
              /\ chat'[c].alerts = chat[c].alerts
              /\ (ui'[c] # ui[c] /\ NeedsTranslation(chat[c]))
                    => (nextId \in DOMAIN jobs' /\ jobs'[nextId].pc = "translating")]_vars


\* C37: a translateText call in progress is never left waiting for good: as
\* long as it has not returned, one of its pending requests can still settle
\* (by a response, a network error or its abort timer) or its result can be
\* collected.  Every step uses up an attempt, an endpoint or a provider, so a
\* call that always has a next step returns.
C37_CallNeverStuck ==
    tr.pc \in {"openai", "fallbacks"} => ENABLED TranslateStep


(***************************************************************************)
(*                 CLAIMS ABOUT THE PRESENCE EFFECT                        *)
(***************************************************************************)

\* The presence effect of tab c runs after this step: displayName, role or
\* myLanguage changed and there is a display name.  It calls updatePresence
\* with the role of the new render.
PresenceEffectRuns(c) ==
    /\ ui'[c].displayName # ""
    /\ <<ui'[c].displayName, ui'[c].role, ui'[c].myLanguage>>
           # <<ui[c].displayName, ui[c].role, ui[c].myLanguage>>

\* C38: every updatePresence call of the presence effect carries a role in
\* {user1, user2, spectator}, and no presence row has another role.
C38_PresenceRoleAssigned ==
    [][/\ \A c \in Clients : PresenceEffectRuns(c) => RoleCheck(ui'[c].role)
       /\ \A r \in presence' : RoleCheck(r.role)]_vars

=========================================================================
